---- MODULE Spec2Model ----
(***************************************************************************)
(* A model of sdb, a ptrace based debugger for x86-64 Linux.               *)
(*                                                                         *)
(* The debugger is single threaded; the only concurrency is between the    *)
(* debugger and its tracee, mediated by the kernel.  The kernel side of    *)
(* the tracee (kstate, traced, kevent, user) is the environment of the     *)
(* code; the remaining variables are fields of sdb::process, sdb::target   *)
(* and the position of the operation in progress.                          *)
(***************************************************************************)
EXTENDS Integers, Sequences, FiniteSets, TLC

(***************************************************************************)
(* Bounds of the model.                                                    *)
(***************************************************************************)
\* Tracee code addresses are 0 .. MaxPC.
MaxPC == 5
\* General purpose registers hold values 0 .. MaxReg.
MaxReg == 1
\* Number of breakpoint sites a user may create.
MaxSites == 1

(***************************************************************************)
(* Signal numbers used by the code.                                        *)
(***************************************************************************)
SIGTRAP == 5
SIGKILL == 9
SIGCONT == 18
SIGSTOP == 19

(***************************************************************************)
(* ptrace requests used by the code.                                       *)
(***************************************************************************)
PTRACE_POKEUSER == 6
PTRACE_CONT == 7
PTRACE_ATTACH == 16
PTRACE_DETACH == 17

PCs == 0 .. MaxPC
Vals == 0 .. MaxReg
GPRs == {"rsi", "rdi"}

(***************************************************************************)
(* State.                                                                  *)
(***************************************************************************)
VARIABLES
    \* ---- kernel side of the tracee
    kstate,            \* "none" | "running" | "stopped" | "zombie" | "reaped"
    traced,            \* the tracee is ptrace-attached to the debugger
    kevent,            \* wait status not yet collected by waitpid, or NoEvent
    user,              \* the tracee's register file: [rip, rsi, rdi]
    \* ---- sdb::process
    obj,               \* "none" | "live" | "destroyed": the process object
    pid_,
    state_,            \* process_state
    terminate_on_end_,
    target_,           \* a target has been attached with set_target
    by,                \* history: "launch" | "attach", which call made the object
    data_,             \* the register cache of sdb::registers
    sites,             \* breakpoint_sites(): sequence of breakpoint_site
    next_site_id,
    \* ---- sdb::target / sdb::stack
    inline_height,
    \* ---- control: the operation in progress and its local variables
    pos,               \* "idle" | "step_in" | "run_until" | "step_over" | ...
    loc,
    frame,             \* locals of the step_over that called run_until_address
    \* ---- what the last completed operation returned, and how
    ret,
    \* ---- history: registers written since the tracee last executed
    written

kernelVars == <<kstate, traced, kevent, user>>
procVars   == <<obj, pid_, state_, terminate_on_end_, target_, by, data_>>
siteVars   == <<sites, next_site_id>>
targetVars == <<inline_height>>
ctlVars    == <<pos, loc, frame>>
vars == <<kernelVars, procVars, siteVars, targetVars, ctlVars, ret, written>>

(***************************************************************************)
(* Wait statuses, as the kernel encodes and <sys/wait.h> decodes them.     *)
(***************************************************************************)
W_EXITCODE(code) == (code % 256) * 256
W_TERMCODE(sig)  == sig
W_STOPCODE(sig)  == sig * 256 + 127

WIFEXITED(s)   == s % 128 = 0
WEXITSTATUS(s) == (s \div 256) % 256
WIFSIGNALED(s) == (s % 128) \notin {0, 127}
WTERMSIG(s)    == s % 128
WIFSTOPPED(s)  == s % 256 = 127
WSTOPSIG(s)    == (s \div 256) % 256

\* An event of the tracee: what happened (kind, val), the wait status the
\* kernel reports for it and the si_code of its siginfo.
ExitEvent(code) == [kind |-> "exit", val |-> code,
                    status |-> W_EXITCODE(code), si_code |-> "none"]
TermEvent(sig)  == [kind |-> "signal", val |-> sig,
                    status |-> W_TERMCODE(sig), si_code |-> "none"]
StopEvent(sig, si_code) == [kind |-> "stop", val |-> sig,
                            status |-> W_STOPCODE(sig), si_code |-> si_code]
NoEvent  == [kind |-> "none", val |-> -1, status |-> -1, si_code |-> "none"]
NoReason == [reason |-> "none", info |-> -1, trap_reason |-> "none"]
NoLoc    == [op |-> "none"]
NoRet    == [op |-> "none", outcome |-> "none", msg |-> <<>>,
             reason |-> NoReason, log |-> <<>>]
\* ret while the operation called last has not returned
Pending(name) == [op |-> "pending", outcome |-> name, msg |-> <<>>,
                  reason |-> NoReason, log |-> <<>>]
NoneWritten == [r \in GPRs |-> -1]
ZeroRegs == [rip |-> 0, rsi |-> 0, rdi |-> 0]

process_state == {"stopped", "running", "exited", "terminated"}

\* sdb::stop_reason::stop_reason(int wait_status).  reason and info are left
\* uninitialised when none of the three tests holds: any value may be read.
stop_reason(wait_status) ==
    IF WIFEXITED(wait_status)
    THEN {[reason |-> "exited", info |-> WEXITSTATUS(wait_status)]}
    ELSE IF WIFSIGNALED(wait_status)
    THEN {[reason |-> "terminated", info |-> WTERMSIG(wait_status)]}
    ELSE IF WIFSTOPPED(wait_status)
    THEN {[reason |-> "stopped", info |-> WSTOPSIG(wait_status)]}
    ELSE [reason : process_state, info : {0, 255}]

\* Classification of a stop by the siginfo of the signal (spec 4.5).
augment_stop_reason(r, si_code) ==
    [reason |-> r.reason, info |-> r.info,
     trap_reason |->
        IF r.reason = "stopped" /\ r.info = SIGTRAP
        THEN CASE si_code = "TRAP_TRACE" -> "single_step"
               [] si_code = "SI_KERNEL"  -> "software_breakpoint"
               [] OTHER                  -> "unknown"
        ELSE "none"]

\* The stop reasons a waitpid that collects event e produces.
WaitReasons(e) ==
    {augment_stop_reason(r, e.si_code) : r \in stop_reason(e.status)}

\* The kernel state of a tracee after its event has been collected.
Collected(ks) == IF ks = "zombie" THEN "reaped" ELSE ks

(***************************************************************************)
(* The debug information of the executable (file addresses).               *)
(***************************************************************************)
\* load_bias(): virt = file + load bias.
LoadBias == 1
\* The ELF's loaded sections cover the file addresses 0 .. TextEnd - 1.
TextEnd == 5
\* The compile unit root's [low_pc, high_pc).
CuLow == 0
CuHigh == 4

NullAddr == -1
to_file_addr(virt) ==
    IF virt - LoadBias >= 0 /\ virt - LoadBias < TextEnd
    THEN virt - LoadBias ELSE NullAddr
to_virt_addr(file) == file + LoadBias

\* The rows of the line table in emission order.
LineRows == << [address |-> 0, end_sequence |-> FALSE],
               [address |-> 2, end_sequence |-> FALSE],
               [address |-> 3, end_sequence |-> TRUE] >>

\* The .debug_info of one compile unit, entry by entry in section order; the
\* position of an entry is its index and every entry is one position long.
\* An entry with tag "null" is abbreviation code 0, the terminator of a list
\* of children.  sibling is the position DW_AT_sibling refers to (0: the
\* entry has no such attribute), name is what die::name() yields, low_pc
\* NullAddr says the entry has no DW_AT_low_pc.
NoName == "-"
Entry(tag, has_children, sibling, low_pc, high_pc, name) ==
    [tag |-> tag, has_children |-> has_children, sibling |-> sibling,
     low_pc |-> low_pc, high_pc |-> high_pc, name |-> name]
NullEntry == Entry("null", FALSE, 0, -1, -1, NoName)

Dies == << Entry("compile_unit",       TRUE,  0, 0, 4, "unit"),
           Entry("subprogram",         TRUE,  7, 0, 2, "main"),
           Entry("inlined_subroutine", TRUE,  0, 1, 2, "outer"),
           Entry("inlined_subroutine", FALSE, 0, 1, 2, "inner"),
           NullEntry,
           NullEntry,
           Entry("subprogram",         FALSE, 0, 2, 4, "helper"),
           NullEntry >>

\* A line_table::iterator is the index of its row; 0 is the end iterator.
EndIt == 0

\* Variant: an end-sequence row is returned like any other.
RECURSIVE entry_scan_any_row(_, _, _)
entry_scan_any_row(rows, prev, address) ==
    IF prev + 1 > Len(rows) THEN EndIt
    ELSE IF rows[prev].address <= address /\ rows[prev + 1].address > address
         THEN prev
         ELSE entry_scan_any_row(rows, prev + 1, address)

\* sdb::line_table::get_entry_by_address
RECURSIVE entry_scan(_, _, _)
entry_scan(rows, prev, address) ==
    IF prev + 1 > Len(rows) THEN EndIt
    ELSE IF rows[prev].address <= address /\ rows[prev + 1].address > address
            /\ ~rows[prev].end_sequence
         THEN prev
         ELSE entry_scan(rows, prev + 1, address)

get_entry_by_address(rows, address) ==
    IF Len(rows) = 0 THEN EndIt ELSE entry_scan(rows, 1, address)

\* sdb::die::contains_address for a DIE with DW_AT_low_pc / DW_AT_high_pc
contains_address(d, address) ==
    address # NullAddr /\ d.low_pc <= address /\ d.high_pc > address

\* sdb::dwarf::compile_unit_containing_address: is there a unit for address
compile_unit_containing_address(address) ==
    address # NullAddr /\ CuLow <= address /\ CuHigh > address

\* sdb::target::line_entry_at_pc
line_entry_at_pc(pc) ==
    LET fa == to_file_addr(pc) IN
    IF fa = NullAddr THEN EndIt
    ELSE IF ~compile_unit_containing_address(fa) THEN EndIt
    ELSE get_entry_by_address(LineRows, fa)

\* A sdb::die value: the position it was parsed at, whether it has an
\* abbreviation entry, and next_, the position after it.
parse_die(info, cur) ==
    IF info[cur].tag = "null"
    THEN [pos |-> 0, abbrev |-> FALSE, next |-> cur + 1]
    ELSE [pos |-> cur, abbrev |-> TRUE, next |-> cur + 1]

\* die::children_range::iterator::operator++ on an iterator holding die d,
\* and the loop in it that walks sub_children to the terminator
RECURSIVE children_increment(_, _), children_skip(_, _)
children_increment(info, d) ==
    IF ~d.abbrev THEN d
    ELSE IF ~info[d.pos].has_children THEN parse_die(info, d.next)
    ELSE IF info[d.pos].sibling # 0
         THEN parse_die(info, info[d.pos].sibling)
         ELSE parse_die(info,
                        children_skip(info, parse_die(info, d.next)).next)
\* Variant: the walk parses entry after entry and never goes over the
\* children of a child.
RECURSIVE children_skip_flat(_, _)
children_skip_flat(info, sub_children) ==
    IF sub_children.abbrev
    THEN children_skip_flat(info, parse_die(info, sub_children.next))
    ELSE sub_children

children_skip(info, sub_children) ==
    IF sub_children.abbrev
    THEN children_skip(info, children_increment(info, sub_children))
    ELSE sub_children

\* die::children(): the positions a range-for over children() visits
RECURSIVE children_from(_, _)
children_from(info, it) ==
    IF ~it.abbrev THEN <<>>
    ELSE <<it.pos>> \o children_from(info, children_increment(info, it))
children(info, die) ==
    IF info[die].has_children
    THEN children_from(info, parse_die(info, die + 1)) ELSE <<>>

\* sdb::dwarf::index / index_die: the positions held by function_index_
RECURSIVE index_die(_, _)
index_die(info, current) ==
    LET has_range == info[current].low_pc # NullAddr
        is_function == info[current].tag \in {"subprogram", "inlined_subroutine"}
        kids == children(info, current)
    IN (IF has_range /\ is_function /\ info[current].name # NoName
        THEN {current} ELSE {})
       \cup UNION {index_die(info, kids[k]) : k \in 1 .. Len(kids)}

\* Variant: the tag of the indexed entry is not looked at.
function_containing_address_any_tag(info, address) ==
    {i \in index_die(info, 1) : contains_address(info[i], address)}

\* sdb::dwarf::function_containing_address: the set of DIEs the scan of the
\* (unordered) function index may return; empty when there is none.
function_containing_address(info, address) ==
    {i \in index_die(info, 1) :
        contains_address(info[i], address) /\ info[i].tag = "subprogram"}

\* Variant: the children of the function are searched at every level.
RECURSIVE inline_walk_from_root(_, _, _)
inline_walk_from_root(info, stack, address) ==
    LET kids == children(info, stack[1])
        found == {k \in 1 .. Len(kids) :
                     /\ info[kids[k]].tag = "inlined_subroutine"
                     /\ contains_address(info[kids[k]], address)
                     /\ \A i \in 1 .. Len(stack) : stack[i] # kids[k]}
    IN IF found = {} THEN stack
       ELSE inline_walk_from_root(
                info,
                Append(stack,
                       kids[CHOOSE k \in found : \A l \in found : k <= l]),
                address)

\* sdb::dwarf::inline_stack_at_address, below function DIE f
RECURSIVE inline_walk(_, _, _)
inline_walk(info, stack, address) ==
    LET kids == children(info, stack[Len(stack)])
        found == {k \in 1 .. Len(kids) :
                     /\ info[kids[k]].tag = "inlined_subroutine"
                     /\ contains_address(info[kids[k]], address)}
    IN IF found = {} THEN stack
       ELSE inline_walk(info,
                        Append(stack,
                               kids[CHOOSE k \in found : \A l \in found : k <= l]),
                        address)

inline_stack_at_address(info, address) ==
    LET func == function_containing_address(info, address) IN
    IF func = {} THEN <<>>
    ELSE inline_walk(info, <<CHOOSE f \in func : \A g \in func : f <= g>>,
                     address)

\* stack::reset_inline_height: the cursor is left between 0 and the depth of
\* the inline stack at the PC.
reset_inline_height(pc) ==
    0 .. Len(inline_stack_at_address(Dies, to_file_addr(pc)))

(***************************************************************************)
(* Breakpoint sites.                                                       *)
(***************************************************************************)
\* stoppoint_collection::find_by_address: index of the first site, or 0
find_by_address(s, address) ==
    IF \E i \in 1 .. Len(s) : s[i].address = address
    THEN CHOOSE i \in 1 .. Len(s) :
            /\ s[i].address = address
            /\ \A j \in 1 .. Len(s) : s[j].address = address => i <= j
    ELSE 0

\* stoppoint_collection::contains_address
sites_contains_address(s, address) == find_by_address(s, address) # 0

\* stoppoint_collection::enabled_stoppoint_at_address
enabled_stoppoint_at_address(s, address) ==
    sites_contains_address(s, address) /\ s[find_by_address(s, address)].is_enabled

(***************************************************************************)
(* sdb::process                                                            *)
(***************************************************************************)
\* A system call of the debugger: its name and its request, signal or options.
Call(name, arg) == <<name, arg>>

HasCall(log, c) == \E i \in 1 .. Len(log) : log[i] = c

\* The pid fork returns to the parent; also the pid of an outside process.
ChildPid == 1
Pids == {0, ChildPid, ChildPid + 1}
Paths == {"yes", "you_do_not_have_to_be_good"}

\* execlp finds the program
Executable(path) == path = "yes"

\* A tracee process exists (running, stopped or not yet reaped).
Exists == kstate \in {"running", "stopped", "zombie"}
\* ptrace requests other than ATTACH/TRACEME need a tracee in ptrace-stop:
\* stopped, with the stop already reported through waitpid.
InPtraceStop == kstate = "stopped" /\ traced /\ kevent = NoEvent

\* exit_with_perror: the message written to the channel
exit_with_perror(prefix, errno) == <<prefix, ": ", errno>>

\* The child of launch up to exec: what it writes to the pipe.
launch_child(path, traceme_ok) ==
    IF ~traceme_ok THEN exit_with_perror("Tracing failed", "EPERM")
    ELSE IF ~Executable(path) THEN exit_with_perror("exec failed", "ENOENT")
    ELSE <<>>

\* Variant: the parent does not look at what it read.
launch_failed_ignored(data) == FALSE

\* launch: the parent's test of what it read from the pipe
launch_failed(data) == Len(data) > 0

\* Variant: no pid is rejected.
attach_any_pid(pid) == FALSE

\* attach: the pid test made before ptrace(PTRACE_ATTACH)
attach_invalid_pid(pid) == pid = 0

\* wait_on_signal on a software breakpoint stop: the PC the kernel reports is
\* one past the int3; it is set back by one (spec 4.5).
rewind_pc(reason, u) ==
    IF reason.trap_reason = "software_breakpoint"
    THEN [u EXCEPT !.rip = @ - 1] ELSE u

\* read_all_registers / notify_stop, as run by wait_on_signal on a stop
StopEffects(reason) ==
    /\ data_' = IF reason.reason = "stopped" THEN user' ELSE data_
    /\ inline_height' \in
          IF target_ /\ reason.reason = "stopped"
          THEN reset_inline_height(user'.rip) ELSE {inline_height}

\* Variant: the decoded reason is returned but not stored.
wait_on_signal_stale(reason) ==
    /\ state_' = state_
    /\ StopEffects(reason)

\* sdb::process::wait_on_signal, given the reason decoded from the status
wait_on_signal(reason) ==
    /\ state_' = reason.reason
    /\ StopEffects(reason)

\* sdb::process::launch
launch(path) ==
    /\ pos = "idle" /\ obj # "live" /\ ~Exists
    /\ \E fork_ok \in BOOLEAN, traceme_ok \in BOOLEAN :
         IF ~fork_ok
         THEN /\ ret' = [op |-> "launch", outcome |-> "error",
                         msg |-> <<"fork failed">>, reason |-> NoReason,
                         log |-> <<Call("fork", 0)>>, data |-> <<>>,
                         child |-> kstate]
              /\ UNCHANGED <<kernelVars, procVars, siteVars, targetVars,
                             ctlVars, written>>
         ELSE LET data == launch_child(path, traceme_ok)
                  \* the child exited with -1, or stopped with SIGTRAP at exec
                  ev == IF Len(data) > 0
                        THEN ExitEvent(255)
                        ELSE StopEvent(SIGTRAP, "SI_USER")
              IN
              IF launch_failed(data)
              THEN /\ kstate' = "reaped" /\ traced' = FALSE
                   /\ kevent' = NoEvent /\ user' = ZeroRegs
                   /\ ret' = [op |-> "launch", outcome |-> "error",
                              msg |-> data, reason |-> NoReason,
                              log |-> <<Call("fork", 0), Call("read", 0),
                                        Call("waitpid", 0)>>,
                              data |-> data, child |-> kstate']
                   /\ UNCHANGED <<procVars, siteVars, targetVars, ctlVars, written>>
              ELSE /\ kstate' = IF Len(data) > 0 THEN "reaped" ELSE "stopped"
                   /\ traced' = (Len(data) = 0)
                   /\ kevent' = NoEvent /\ user' = ZeroRegs
                   /\ obj' = "live" /\ pid_' = ChildPid
                   /\ terminate_on_end_' = TRUE /\ by' = "launch"
                   /\ \E r \in WaitReasons(ev) :
                        /\ wait_on_signal(r)
                        /\ ret' = [op |-> "launch", outcome |-> "ok",
                                   msg |-> <<>>, reason |-> r,
                                   log |-> <<Call("fork", 0), Call("read", 0),
                                             Call("waitpid", 0)>>,
                                   data |-> data, child |-> kstate']
                   /\ written' = NoneWritten
                   /\ target_' = FALSE
                   /\ UNCHANGED <<siteVars, ctlVars>>

\* sdb::process::attach
attach(pid) ==
    /\ pos = "idle" /\ obj # "live"
    /\ IF attach_invalid_pid(pid)
       THEN /\ ret' = [op |-> "attach", outcome |-> "error",
                       msg |-> <<"Invalid PID">>, reason |-> NoReason,
                       log |-> <<>>, pid |-> pid]
            /\ UNCHANGED <<kernelVars, procVars, siteVars, targetVars,
                           ctlVars, written>>
       ELSE IF ~(pid = ChildPid /\ kstate = "running" /\ ~traced)
       THEN /\ ret' = [op |-> "attach", outcome |-> "error",
                       msg |-> <<"Could not attach">>, reason |-> NoReason,
                       log |-> <<Call("ptrace", PTRACE_ATTACH)>>, pid |-> pid]
            /\ UNCHANGED <<kernelVars, procVars, siteVars, targetVars,
                           ctlVars, written>>
       ELSE /\ kstate' = "stopped" /\ traced' = TRUE /\ kevent' = NoEvent
            /\ user' = user
            /\ obj' = "live" /\ pid_' = pid
            /\ terminate_on_end_' = FALSE /\ by' = "attach"
            /\ \E r \in WaitReasons(StopEvent(SIGSTOP, "SI_USER")) :
                 /\ wait_on_signal(r)
                 /\ ret' = [op |-> "attach", outcome |-> "ok", msg |-> <<>>,
                            reason |-> r,
                            log |-> <<Call("ptrace", PTRACE_ATTACH),
                                      Call("waitpid", 0)>>, pid |-> pid]
            /\ written' = NoneWritten
            /\ target_' = FALSE
            /\ UNCHANGED <<siteVars, ctlVars>>

\* A std::unique_ptr<elf> / elf* holds the elf object or nothing.
NullPtr == "nullptr"
ElfObject == "elf"

\* create_loaded_elf: std::make_unique<sdb::elf>(path)
create_loaded_elf == ElfObject

\* sdb::target::target(proc, obj), called with obj holding elf: the member
\* initialisers run in the order of the member declarations, then the body.
\* Each std::move into a member or a parameter takes the pointer and leaves
\* its source empty.
target_ctor(proc, elf) ==
    LET process_1 == proc              \* process_(std::move(proc))
        elf_1 == elf                   \* elf_(std::move(obj))
        obj_1 == NullPtr               \*   obj is moved from
        elves_0 == <<>>                \* elves_ is default-constructed
        main_elf_1 == obj_1            \* main_elf_(obj.get())
        elves_1 == Append(elves_0, obj_1)  \* elves_.push(std::move(obj))
    IN [process_ |-> process_1, elf_ |-> elf_1,
        elves_ |-> elves_1, main_elf_ |-> main_elf_1]

\* Variant: the state is set before the result of ptrace is tested.
resume_state_first(ok, st) == "running"

\* sdb::process::resume: the state after ptrace(PTRACE_CONT) returned ok / failed
resume_state(ok, st) == IF ok THEN "running" ELSE st

\* sdb::process::resume
resume ==
    /\ pos = "idle" /\ obj = "live"
    /\ state_' = resume_state(InPtraceStop, state_)
    /\ IF InPtraceStop
       THEN /\ kstate' = "running" /\ kevent' = NoEvent
            /\ UNCHANGED <<traced, user>>
            /\ ret' = [op |-> "resume", outcome |-> "ok", msg |-> <<>>,
                       reason |-> NoReason,
                       log |-> <<Call("ptrace", PTRACE_CONT)>>,
                       state |-> state_]
       ELSE /\ UNCHANGED kernelVars
            /\ ret' = [op |-> "resume", outcome |-> "error",
                       msg |-> <<"Cound not resume">>, reason |-> NoReason,
                        log |-> <<Call("ptrace", PTRACE_CONT)>>, state |-> state_]
    /\ UNCHANGED <<obj, pid_, terminate_on_end_, target_, by, data_,
                   siteVars, targetVars, ctlVars, written>>

\* sdb::process::wait_on_signal called by the user of the process
WaitOnSignal ==
    /\ pos = "idle" /\ obj = "live"
    /\ \/ /\ Exists /\ kevent # NoEvent
          /\ kevent' = NoEvent /\ kstate' = Collected(kstate)
          /\ UNCHANGED traced
          /\ \E r \in WaitReasons(kevent) :
               /\ user' = rewind_pc(r, user)
               /\ wait_on_signal(r)
               /\ ret' = [op |-> "wait_on_signal", outcome |-> "ok",
                          msg |-> <<>>, reason |-> r,
                          log |-> <<Call("waitpid", 0)>>, event |-> kevent]
       \/ /\ ~Exists
          /\ ret' = [op |-> "wait_on_signal", outcome |-> "error",
                     msg |-> <<"waitpid failed">>, reason |-> NoReason,
                     log |-> <<Call("waitpid", 0)>>]
          /\ UNCHANGED <<kernelVars, state_, data_, inline_height>>
    /\ UNCHANGED <<obj, pid_, terminate_on_end_, target_, by,
                   siteVars, ctlVars, written>>

\* Variant: the tracee is killed whatever terminate_on_end is.
destructor_calls_kill(pid, st, terminate_on_end) ==
    IF pid # 0
    THEN (IF st = "running"
          THEN <<Call("kill", SIGSTOP), Call("waitpid", 0)>> ELSE <<>>)
         \o <<Call("ptrace", PTRACE_DETACH), Call("kill", SIGCONT)>>
         \o <<Call("kill", SIGKILL), Call("waitpid", 0)>>
    ELSE <<>>

\* sdb::process::~process: the system calls made, in order
destructor_calls(pid, st, terminate_on_end) ==
    IF pid # 0
    THEN (IF st = "running"
          THEN <<Call("kill", SIGSTOP), Call("waitpid", 0)>> ELSE <<>>)
         \o <<Call("ptrace", PTRACE_DETACH), Call("kill", SIGCONT)>>
         \o (IF terminate_on_end
             THEN <<Call("kill", SIGKILL), Call("waitpid", 0)>> ELSE <<>>)
    ELSE <<>>

\* sdb::process::~process
Destroy ==
    /\ pos = "idle" /\ obj = "live"
    /\ LET log == destructor_calls(pid_, state_, terminate_on_end_) IN
       /\ kstate' = IF ~Exists THEN kstate
                    ELSE IF HasCall(log, Call("kill", SIGKILL)) \/ kstate = "zombie"
                    THEN "reaped"
                    ELSE IF HasCall(log, Call("ptrace", PTRACE_DETACH)) THEN "running"
                    ELSE kstate
       /\ traced' = IF HasCall(log, Call("ptrace", PTRACE_DETACH)) THEN FALSE ELSE traced
       /\ kevent' = NoEvent
       /\ ret' = [op |-> "~process", outcome |-> "ok", msg |-> <<>>,
                  reason |-> NoReason, log |-> log,
                  state |-> state_, by |-> by,
                  before |-> kstate, after |-> kstate']
    /\ obj' = "destroyed"
    /\ UNCHANGED <<user, pid_, state_, terminate_on_end_, target_, by, data_,
                   siteVars, targetVars, ctlVars, written>>

\* Variant: the write stays in the cache.
write_user_area_lost(u, r, v) == u

\* sdb::process::write_user_area: ptrace(PTRACE_POKEUSER) on the tracee
write_user_area(u, r, v) == [u EXCEPT ![r] = v]

\* sdb::registers::write_by_id for a general purpose register
write_by_id(r, v) ==
    /\ pos = "idle" /\ obj = "live"
    /\ data_' = [data_ EXCEPT ![r] = v]
    /\ IF InPtraceStop
       THEN /\ user' = write_user_area(user, r, v)
            /\ written' = [written EXCEPT ![r] = v]
            /\ ret' = [op |-> "write_by_id", outcome |-> "ok", msg |-> <<>>,
                       reason |-> NoReason,
                       log |-> <<Call("ptrace", PTRACE_POKEUSER)>>]
       ELSE /\ UNCHANGED <<user, written>>
            /\ ret' = [op |-> "write_by_id", outcome |-> "error",
                       msg |-> <<"Could not write to user area">>,
                       reason |-> NoReason,
                       log |-> <<Call("ptrace", PTRACE_POKEUSER)>>]
    /\ UNCHANGED <<kstate, traced, kevent, obj, pid_, state_,
                   terminate_on_end_, target_, by,
                   siteVars, targetVars, ctlVars>>

(***************************************************************************)
(* The tracee and the kernel.                                              *)
(***************************************************************************)
\* run_until_address is waiting and the tracee fetches the instruction at
\* the address it runs to.
Reach(l) ==
    IF pos = "run_until" /\ l.address = user.rip
    THEN [l EXCEPT !.reached = TRUE] ELSE l

\* A program outside the debugger starts a process.
ExternalStart ==
    /\ ~Exists /\ obj # "live" /\ pos = "idle"
    /\ kstate' = "running" /\ traced' = FALSE
    /\ kevent' = NoEvent /\ user' = ZeroRegs
    /\ UNCHANGED <<procVars, siteVars, targetVars, ctlVars, ret, written>>

\* The running tracee executes the instruction at rip and goes to another.
TraceeExec ==
    /\ kstate = "running" /\ traced
    /\ ~enabled_stoppoint_at_address(sites, user.rip)
    /\ \E pc \in PCs : user' = [user EXCEPT !.rip = pc]
    /\ written' = NoneWritten
    /\ loc' = Reach(loc)
    /\ UNCHANGED <<kstate, traced, kevent, procVars, siteVars, targetVars,
                   pos, frame, ret>>

\* The running tracee executes an instruction that writes a register.
TraceeExecReg ==
    /\ kstate = "running" /\ traced
    /\ ~enabled_stoppoint_at_address(sites, user.rip)
    /\ \E r \in GPRs, v \in Vals : user' = [user EXCEPT ![r] = v]
    /\ written' = NoneWritten
    /\ loc' = Reach(loc)
    /\ UNCHANGED <<kstate, traced, kevent, procVars, siteVars, targetVars,
                   pos, frame, ret>>

\* The running tracee executes exit.
TraceeExit ==
    /\ kstate = "running" /\ traced
    /\ ~enabled_stoppoint_at_address(sites, user.rip)
    /\ kstate' = "zombie"
    /\ kevent' = ExitEvent(0)
    /\ written' = NoneWritten
    /\ loc' = Reach(loc)
    /\ UNCHANGED <<traced, user, procVars, siteVars, targetVars, pos, frame,
                   ret>>

\* The running tracee executes the int3 of an enabled site: SIGTRAP, with
\* rip one past the one byte instruction.
TraceeHitBreakpoint ==
    /\ kstate = "running" /\ traced
    /\ enabled_stoppoint_at_address(sites, user.rip)
    /\ kstate' = "stopped"
    /\ kevent' = StopEvent(SIGTRAP, "SI_KERNEL")
    /\ user' = [user EXCEPT !.rip = @ + 1]
    /\ loc' = Reach(loc)
    /\ UNCHANGED <<traced, procVars, siteVars, targetVars, pos, frame, ret,
                   written>>

\* A signal stops the running tracee before its next instruction.
TraceeSignal ==
    /\ kstate = "running" /\ traced
    /\ kstate' = "stopped"
    /\ kevent' = StopEvent(SIGSTOP, "SI_USER")
    /\ UNCHANGED <<traced, user, procVars, siteVars, targetVars, ctlVars,
                   ret, written>>

\* A signal kills the running tracee.
TraceeKilled ==
    /\ kstate = "running" /\ traced
    /\ kstate' = "zombie"
    /\ kevent' = TermEvent(SIGKILL)
    /\ UNCHANGED <<traced, user, procVars, siteVars, targetVars, ctlVars,
                   ret, written>>

(***************************************************************************)
(* Breakpoint sites of the process.                                        *)
(***************************************************************************)
\* process::create_breakpoint_site: a new site is disabled; an internal site
\* takes the id -1 and no id of the counter.
create_breakpoint_site(s, id, address, internal) ==
    Append(s, [id |-> id, address |-> address,
               is_enabled |-> FALSE, is_internal |-> internal])

\* breakpoint_site::enable / disable on the site at index i
set_enabled(s, i, on) == [s EXCEPT ![i].is_enabled = on]

\* stoppoint_collection::remove_by_address: erase the first site at address
remove_by_address(s, address) ==
    LET i == find_by_address(s, address) IN
    IF i = 0 THEN s
    ELSE SubSeq(s, 1, i - 1) \o SubSeq(s, i + 1, Len(s))

\* The sites the user made.
UserSites(s) == {i \in 1 .. Len(s) : ~s[i].is_internal}

\* The debugger is at its prompt with a stopped tracee.
AtPrompt == pos = "idle" /\ obj = "live" /\ state_ = "stopped"

\* The user creates a breakpoint site.
CreateSite(address) ==
    /\ AtPrompt
    /\ Cardinality(UserSites(sites)) < MaxSites
    /\ ~sites_contains_address(sites, address)
    /\ sites' = create_breakpoint_site(sites, next_site_id, address, FALSE)
    /\ next_site_id' = next_site_id + 1
    /\ ret' = [Pending("create_breakpoint_site") EXCEPT !.op = "returned"]
    /\ UNCHANGED <<kernelVars, procVars, targetVars, ctlVars, written>>

\* The user enables a breakpoint site.
EnableSite(i) ==
    /\ AtPrompt /\ i \in UserSites(sites) /\ ~sites[i].is_enabled
    /\ sites' = set_enabled(sites, i, TRUE)
    /\ ret' = [Pending("enable") EXCEPT !.op = "returned"]
    /\ UNCHANGED <<next_site_id, kernelVars, procVars, targetVars, ctlVars,
                   written>>

\* The user disables a breakpoint site.
DisableSite(i) ==
    /\ AtPrompt /\ i \in UserSites(sites) /\ sites[i].is_enabled
    /\ sites' = set_enabled(sites, i, FALSE)
    /\ ret' = [Pending("disable") EXCEPT !.op = "returned"]
    /\ UNCHANGED <<next_site_id, kernelVars, procVars, targetVars, ctlVars,
                   written>>

(***************************************************************************)
(* sdb::target                                                             *)
(***************************************************************************)
\* stop_reason(process_state::stopped, SIGTRAP, trap_type::single_step)
single_step_reason ==
    [reason |-> "stopped", info |-> SIGTRAP, trap_reason |-> "single_step"]

\* stop_reason::is_step / is_breakpoint
is_step(r) ==
    r.reason = "stopped" /\ r.info = SIGTRAP /\ r.trap_reason = "single_step"
is_breakpoint(r) ==
    /\ r.reason = "stopped" /\ r.info = SIGTRAP
    /\ r.trap_reason \in {"software_breakpoint", "hardware_breakpoint"}

\* line_table::iterator::operator->: the end iterator holds a default entry.
entry_end_sequence(it) ==
    IF it = EndIt THEN FALSE ELSE LineRows[it].end_sequence

\* stack::simulate_inlined_step_in
simulate_inlined_step_in(height) == height - 1

\* What the debugger and the kernel hold, for comparing before and after.
Snapshot(d, u, st, ks, s, h) ==
    [pc |-> d.rip, rip |-> u.rip, state |-> st, kstate |-> ks,
     sites |-> s, height |-> h]

\* process::step_instruction: the outcomes of one PTRACE_SINGLESTEP and wait.
\* An enabled site at the PC is disabled for the step and enabled again.
step_instruction ==
    {[reason |-> single_step_reason, rip |-> pc, kstate |-> "stopped"] :
        pc \in PCs}
    \cup {[reason |-> [reason |-> "exited", info |-> 0, trap_reason |-> "none"],
           rip |-> user.rip, kstate |-> "reaped"],
          [reason |-> [reason |-> "terminated", info |-> SIGKILL,
                       trap_reason |-> "none"],
           rip |-> user.rip, kstate |-> "reaped"]}

\* Variant: the simulated step is taken only below a second inlined frame.
step_in_simulates_deeper(height) == height > 1

\* step_in: the test for a simulated step into an inlined callee
step_in_simulates(height) == height > 0

\* Variant: the end iterator is not tested.
KeepStepping_unchecked(entry, orig) ==
    entry = orig \/ entry_end_sequence(entry)

\* step_in: the condition of its do-while loop
KeepStepping(entry, orig) ==
    (entry = orig \/ entry_end_sequence(entry)) /\ entry # EndIt

\* step_in: the addresses run to when the PC is at the low PC of a function
\* (the prologue skip); empty when the step ends at the PC.
PrologueSkip(pc) ==
    LET fa   == to_file_addr(pc)
        func == function_containing_address(Dies, fa)
        line == line_entry_at_pc(pc)
    IN IF fa # NullAddr /\ line # EndIt
          /\ \E f \in func : Dies[f].low_pc = fa
       THEN {to_virt_addr(LineRows[line + 1].address)}
       ELSE {}

\* run_until_address: is a temporary site made
run_until_needs_site(s, address) == ~sites_contains_address(s, address)

\* run_until_address: the sites after the temporary site is made and enabled
run_until_sites(s, address) ==
    IF run_until_needs_site(s, address)
    THEN LET t == create_breakpoint_site(s, -1, address, TRUE)
         IN set_enabled(t, Len(t), TRUE)
    ELSE s

\* run_until_address: the reason returned for what the wait returned
run_until_reason(reason, pc, address) ==
    IF is_breakpoint(reason) /\ pc = address
    THEN [reason EXCEPT !.trap_reason = "single_step"] ELSE reason

\* Variant: the site at the address is removed whoever made it.
run_until_cleanup_always(to_remove, s, address) ==
    remove_by_address(s, address)

\* run_until_address: the sites after the temporary site is removed
run_until_cleanup(to_remove, s, address) ==
    IF to_remove THEN remove_by_address(s, address) ELSE s

\* run_until_address up to its wait: the local variables of the call
run_until_locals(address, via, s) ==
    [op |-> "run_until_address", address |-> address, via |-> via,
     to_remove |-> run_until_needs_site(s, address), before |-> s,
     reached |-> FALSE]

\* sdb::target::step_in, up to its first instruction step
StepIn ==
    /\ AtPrompt /\ target_
    /\ IF step_in_simulates(inline_height)
       THEN /\ inline_height' = simulate_inlined_step_in(inline_height)
            /\ ret' = [op |-> "step_in", outcome |-> "ok", msg |-> <<>>,
                       reason |-> single_step_reason, log |-> <<>>,
                       path |-> "inline", looped |-> FALSE,
                       orig |-> line_entry_at_pc(data_.rip),
                       before |-> Snapshot(data_, user, state_, kstate, sites,
                                           inline_height),
                       after |-> Snapshot(data_, user, state_, kstate, sites,
                                          inline_height')]
            /\ UNCHANGED <<kernelVars, procVars, siteVars, ctlVars, written>>
       ELSE /\ pos' = "step_in" /\ frame' = frame
            /\ loc' = [op |-> "step_in",
                       orig |-> line_entry_at_pc(data_.rip),
                       looped |-> FALSE,
                       before |-> Snapshot(data_, user, state_, kstate, sites,
                                           inline_height)]
            /\ ret' = Pending("step_in")
            /\ UNCHANGED <<kernelVars, procVars, siteVars, targetVars,
                           written>>

\* sdb::target::step_in: one pass of its loop and, when the loop ends, the
\* rest of the function up to its return or to the wait of run_until_address
StepInIter ==
    /\ pos = "step_in" /\ frame' = frame
    /\ \E o \in step_instruction :
         /\ user' = [user EXCEPT !.rip = o.rip]
         /\ kevent' = NoEvent /\ traced' = traced
         /\ data_' = IF o.reason.reason = "stopped" THEN user' ELSE data_
         /\ inline_height' \in
               IF o.reason.reason = "stopped"
               THEN reset_inline_height(o.rip) ELSE {inline_height}
         /\ written' = NoneWritten
         /\ UNCHANGED <<obj, pid_, terminate_on_end_, target_, by,
                        next_site_id>>
         /\ LET entry == line_entry_at_pc(o.rip)
                done(path, reason) ==
                    /\ kstate' = o.kstate /\ state_' = o.reason.reason
                    /\ sites' = sites
                    /\ pos' = "idle" /\ loc' = NoLoc
                    /\ ret' = [op |-> "step_in", outcome |-> "ok",
                               msg |-> <<>>, reason |-> reason, log |-> <<>>,
                               path |-> path, looped |-> loc.looped,
                               orig |-> loc.orig, before |-> loc.before,
                               after |-> Snapshot(data_', user', state_',
                                                  kstate', sites',
                                                  inline_height')]
            IN
            IF ~is_step(o.reason) THEN done("not_step", o.reason)
            ELSE IF KeepStepping(entry, loc.orig)
            THEN /\ kstate' = o.kstate /\ state_' = "stopped"
                 /\ sites' = sites
                 /\ pos' = "step_in" /\ loc' = [loc EXCEPT !.looped = TRUE]
                 /\ ret' = ret
            ELSE IF PrologueSkip(o.rip) = {}
            THEN done("line", single_step_reason)
            ELSE \E address \in PrologueSkip(o.rip) :
                 /\ sites' = run_until_sites(sites, address)
                 /\ kstate' = "running" /\ state_' = "running"
                 /\ pos' = "run_until"
                 /\ loc' = [run_until_locals(address, "step_in", sites)
                               EXCEPT !.reached = FALSE]
                 /\ ret' = [op |-> "step_in", outcome |-> "pending",
                            msg |-> <<>>, reason |-> NoReason, log |-> <<>>,
                            path |-> "prologue", looped |-> loc.looped,
                            orig |-> loc.orig, before |-> loc.before,
                            after |-> Snapshot(data_', user', "stopped",
                                               "stopped", sites,
                                               inline_height')]

\* sdb::target::run_until_address, up to its wait
RunUntilAddress(address) ==
    /\ AtPrompt /\ target_
    /\ sites' = run_until_sites(sites, address)
    /\ state_' = resume_state(InPtraceStop, state_)
    /\ kstate' = "running" /\ kevent' = NoEvent
    /\ pos' = "run_until" /\ frame' = frame
    /\ loc' = run_until_locals(address, "call", sites)
    /\ ret' = Pending("run_until_address")
    /\ UNCHANGED <<traced, user, obj, pid_, terminate_on_end_, target_, by,
                   data_, next_site_id, targetVars, written>>

\* sdb::target::run_until_address, from its wait to its return
RunUntilWait ==
    /\ pos = "run_until" /\ kevent # NoEvent
    /\ kevent' = NoEvent /\ kstate' = Collected(kstate)
    /\ \E r \in WaitReasons(kevent) :
         /\ user' = rewind_pc(r, user)
         /\ wait_on_signal(r)
         /\ sites' = run_until_cleanup(loc.to_remove, sites, loc.address)
         /\ ret' = [op |-> "run_until_address", outcome |-> "ok",
                    msg |-> <<>>,
                    reason |-> run_until_reason(r, data_'.rip, loc.address),
                    log |-> <<>>, address |-> loc.address, via |-> loc.via,
                    pc |-> data_'.rip, reached |-> loc.reached,
                    to_remove |-> loc.to_remove,
                    before |-> loc.before, after |-> sites']
    /\ pos' = (IF loc.via = "step_over" THEN "step_over_ret" ELSE "idle")
    /\ loc' = NoLoc /\ frame' = frame
    /\ UNCHANGED <<traced, obj, pid_, terminate_on_end_, target_, by,
                   next_site_id, written>>

(***************************************************************************)
(* The code of the tracee as the disassembler sees it.                     *)
(***************************************************************************)
\* Texts the decoder prints, character by character.
CallPattern == <<"c", "a", "l", "l">>

\* The bytes at address a decode to an instruction: the code ends after the
\* last address, where the bytes that follow decode to none.
Decodable(a) == a \in PCs

\* The text of the instruction at address a; every instruction is one
\* address long.  The last instruction of the code is a call.
InsnText(a) ==
    LET CallText    == <<"c", "a", "l", "l", "q">>
        MovText     == <<"m", "o", "v">>
        LcallText   == <<"l", "c", "a", "l", "l">>
        SyscallText == <<"s", "y", "s", "c", "a", "l", "l">>
    IN
    CASE a = MaxPC -> CallText
      [] a = 1     -> CallText
      [] a = 0     -> SyscallText
      [] a = 2     -> LcallText
      [] OTHER     -> MovText

\* sdb::disassembler::disassemble: at most n instructions, up to the first
\* address that does not decode
RECURSIVE disassemble(_, _)
disassemble(n, address) ==
    IF n > 0 /\ Decodable(address)
    THEN <<[address |-> address, text |-> InsnText(address)]>>
         \o disassemble(n - 1, address + 1)
    ELSE <<>>

\* std::string::rfind(pat): the position of the last occurrence, from 0;
\* -1 stands for npos
rfind(text, pat) ==
    LET hits == {i \in 0 .. Len(text) - Len(pat) :
                    SubSeq(text, i + 1, i + Len(pat)) = pat}
    IN IF hits = {} THEN -1
       ELSE CHOOSE i \in hits : \A j \in hits : j <= i

\* instructions[i] of a vector: past its size the element read was never
\* written and may hold any address
vector_address(instructions, i) ==
    IF i + 1 <= Len(instructions) THEN {instructions[i + 1].address}
    ELSE PCs

(***************************************************************************)
(* sdb::target::step_over                                                  *)
(***************************************************************************)
\* stack::inline_stack_at_pc
inline_stack_at_pc(pc) == inline_stack_at_address(Dies, to_file_addr(pc))

\* step_over: the branch one pass of the loop takes
step_over_branch(height, instructions) ==
    IF height > 0 THEN "inline"
    ELSE IF rfind(instructions[1].text, CallPattern) = 0 THEN "call"
    ELSE "step"

\* step_over: the addresses the pass runs to in its first two branches
step_over_target(branch, height, inline_stack, instructions) ==
    IF branch = "inline"
    THEN {to_virt_addr(
             Dies[inline_stack[Len(inline_stack) - height + 1]].high_pc)}
    ELSE vector_address(instructions, 1)

\* step_over: the condition of its do-while loop
step_over_continues(entry, orig) ==
    (entry = orig \/ entry_end_sequence(entry)) /\ entry # EndIt

\* Variant: only the address is tested after run_until_address.
step_over_returns_off_target(reason, pc, target) == pc # target

\* step_over: the test after run_until_address that returns its reason
step_over_returns(reason, pc, target) == ~is_step(reason) \/ pc # target

\* sdb::target::step_over, up to its loop
StepOver ==
    /\ AtPrompt /\ target_
    /\ pos' = "step_over" /\ loc' = loc
    /\ frame' = [op |-> "step_over", orig |-> line_entry_at_pc(data_.rip),
                 looped |-> FALSE,
                 last |-> [branch |-> "none", pc |-> -1, height |-> -1,
                           target |-> -1]]
    /\ ret' = Pending("step_over")
    /\ UNCHANGED <<kernelVars, procVars, siteVars, targetVars, written>>

\* step_over: the loop is left or gone through again, after a pass that
\* ended with a single-step stop at pc
StepOverLoop(reason, pc, last) ==
    IF step_over_continues(line_entry_at_pc(pc), frame.orig)
    THEN /\ pos' = "step_over"
         /\ frame' = [frame EXCEPT !.looped = TRUE, !.last = last]
         /\ ret' = Pending("step_over")
    ELSE /\ pos' = "idle" /\ frame' = NoLoc
         /\ ret' = [op |-> "step_over", outcome |-> "ok", msg |-> <<>>,
                    reason |-> reason, log |-> <<>>, path |-> "line",
                    looped |-> frame.looped, orig |-> frame.orig,
                    pc |-> pc, last |-> last]

\* step_over: return of a reason that ends the loop at once
StepOverLeave(reason, pc, last) ==
    /\ pos' = "idle" /\ frame' = NoLoc
    /\ ret' = [op |-> "step_over", outcome |-> "ok", msg |-> <<>>,
               reason |-> reason, log |-> <<>>, path |-> "early",
               looped |-> frame.looped, orig |-> frame.orig,
               pc |-> pc, last |-> last]

\* sdb::target::step_over: one pass of its loop, up to the wait of
\* run_until_address or through the instruction step
StepOverIter ==
    /\ pos = "step_over"
    /\ LET pc           == data_.rip
           inline_stack == inline_stack_at_pc(pc)
           instructions == disassemble(2, pc)
           branch       == step_over_branch(inline_height, instructions)
       IN
       IF branch = "step"
       THEN \E o \in step_instruction :
              LET last == [branch |-> branch, pc |-> pc,
                           height |-> inline_height, target |-> -1] IN
              /\ user' = [user EXCEPT !.rip = o.rip]
              /\ kevent' = NoEvent /\ traced' = traced
              /\ kstate' = o.kstate /\ state_' = o.reason.reason
              /\ data_' = IF o.reason.reason = "stopped" THEN user' ELSE data_
              /\ inline_height' \in
                    IF o.reason.reason = "stopped"
                    THEN reset_inline_height(o.rip) ELSE {inline_height}
              /\ written' = NoneWritten
              /\ loc' = loc
              /\ IF ~is_step(o.reason)
                 THEN StepOverLeave(o.reason, data_'.rip, last)
                 ELSE StepOverLoop(o.reason, data_'.rip, last)
              /\ UNCHANGED <<obj, pid_, terminate_on_end_, target_, by,
                             siteVars>>
       ELSE \E address \in step_over_target(branch, inline_height,
                                            inline_stack, instructions) :
              /\ sites' = run_until_sites(sites, address)
              /\ state_' = resume_state(InPtraceStop, state_)
              /\ kstate' = "running" /\ kevent' = NoEvent
              /\ pos' = "run_until"
              /\ loc' = run_until_locals(address, "step_over", sites)
              /\ frame' = [frame EXCEPT !.last =
                              [branch |-> branch, pc |-> pc,
                               height |-> inline_height, target |-> address]]
              /\ ret' = Pending("step_over")
              /\ UNCHANGED <<traced, user, obj, pid_, terminate_on_end_,
                             target_, by, data_, next_site_id, targetVars,
                             written>>

\* sdb::target::step_over: run_until_address has returned to the loop
StepOverReturn ==
    /\ pos = "step_over_ret"
    /\ loc' = loc
    /\ IF step_over_returns(ret.reason, data_.rip, frame.last.target)
       THEN StepOverLeave(ret.reason, data_.rip, frame.last)
       ELSE StepOverLoop(ret.reason, data_.rip, frame.last)
    /\ UNCHANGED <<kernelVars, procVars, siteVars, targetVars, written>>

(***************************************************************************)
(* sdb::target::step_out                                                   *)
(***************************************************************************)
\* std::size_t arithmetic wraps; the width is cut down to 16 bits.
SizeModulus == 65536
size_sub(a, b) == (a - b) % SizeModulus

\* The frame pointers the tracee may hold in rbp, and the 8-byte values of
\* its stack memory.
FramePointers == {0, 8}
StackMemory(address) == (address \div 8) % (MaxPC + 1)

\* process::read_memory_as<std::uint64_t>
read_memory_as(address) == StackMemory(address)

\* step_out: inline_stack.size() > 1
step_out_has_inline_frames(size) == size > 1

\* Variant: the outermost frame counts as an inlined frame too.
step_out_at_inline_frame_inclusive(height, size) ==
    height <= size_sub(size, 1)

\* step_out: stack.inline_height() < inline_stack.size() - 1
step_out_at_inline_frame(height, size) == height < size_sub(size, 1)

\* step_out: what it runs to and the tracee memory it reads on the way
step_out_plan(inline_stack, height, rbp) ==
    LET size == Len(inline_stack) IN
    IF step_out_has_inline_frames(size)
       /\ step_out_at_inline_frame(height, size)
    THEN [branch |-> "inline", reads |-> <<>>,
          target |-> to_virt_addr(
              Dies[inline_stack[size_sub(size_sub(size, height), 1) + 1]]
                  .high_pc)]
    ELSE [branch |-> "frame", reads |-> <<rbp + 8>>,
          target |-> read_memory_as(rbp + 8)]

\* sdb::target::step_out, up to the wait of run_until_address
StepOut ==
    /\ AtPrompt /\ target_
    /\ \E rbp \in FramePointers :
         LET inline_stack == inline_stack_at_pc(data_.rip)
             plan == step_out_plan(inline_stack, inline_height, rbp)
         IN
         /\ sites' = run_until_sites(sites, plan.target)
         /\ state_' = resume_state(InPtraceStop, state_)
         /\ kstate' = "running" /\ kevent' = NoEvent
         /\ pos' = "run_until" /\ frame' = frame
         /\ loc' = run_until_locals(plan.target, "step_out", sites)
         /\ ret' = [op |-> "step_out", outcome |-> "pending", msg |-> <<>>,
                    reason |-> NoReason, log |-> <<>>,
                    pc |-> data_.rip, size |-> Len(inline_stack),
                    height |-> inline_height,
                    rbp |-> IF plan.reads = <<>> THEN -1 ELSE rbp,
                    plan |-> plan]
    /\ UNCHANGED <<traced, user, obj, pid_, terminate_on_end_, target_, by,
                   data_, next_site_id, targetVars, written>>

(***************************************************************************)
(* The process on its own: launch / attach, resume, wait, registers.       *)
(***************************************************************************)
Init ==
    /\ kstate = "none" /\ traced = FALSE /\ kevent = NoEvent /\ user = ZeroRegs
    /\ obj = "none" /\ pid_ = 0 /\ state_ = "stopped"
    /\ terminate_on_end_ = TRUE /\ target_ = FALSE /\ by = "none"
    /\ data_ = ZeroRegs
    /\ sites = <<>> /\ next_site_id = 1
    /\ inline_height = 0
    /\ pos = "idle" /\ loc = NoLoc /\ frame = NoLoc
    /\ ret = NoRet
    /\ written = NoneWritten

Next ==
    \/ \E path \in Paths : launch(path)
    \/ \E pid \in Pids : attach(pid)
    \/ resume
    \/ WaitOnSignal
    \/ Destroy
    \/ \E r \in GPRs, v \in Vals : write_by_id(r, v)
    \/ ExternalStart
    \/ TraceeExec
    \/ TraceeExecReg
    \/ TraceeExit
    \/ TraceeSignal
    \/ TraceeKilled

Spec == Init /\ [][Next]_vars

(***************************************************************************)
(* The target of a launched program: sites, stepping, run-until.           *)
(***************************************************************************)
\* The state when target::launch has returned.
InitTarget ==
    /\ kstate = "stopped" /\ traced = TRUE /\ kevent = NoEvent
    /\ user = ZeroRegs
    /\ obj = "live" /\ pid_ = ChildPid /\ state_ = "stopped"
    /\ terminate_on_end_ = TRUE /\ target_ = TRUE /\ by = "launch"
    /\ data_ = ZeroRegs
    /\ sites = <<>> /\ next_site_id = 1
    /\ inline_height \in reset_inline_height(0)
    /\ pos = "idle" /\ loc = NoLoc /\ frame = NoLoc
    /\ ret = NoRet
    /\ written = NoneWritten

NextTarget ==
    \/ \E address \in PCs : CreateSite(address)
    \/ \E i \in 1 .. MaxSites : EnableSite(i)
    \/ \E i \in 1 .. MaxSites : DisableSite(i)
    \/ StepIn
    \/ StepInIter
    \/ \E address \in PCs : RunUntilAddress(address)
    \/ RunUntilWait
    \/ StepOver
    \/ StepOverIter
    \/ StepOverReturn
    \/ StepOut
    \/ resume
    \/ WaitOnSignal
    \/ TraceeExec
    \/ TraceeExit
    \/ TraceeHitBreakpoint
    \/ TraceeSignal
    \/ TraceeKilled

SpecTarget == InitTarget /\ [][NextTarget]_vars

(***************************************************************************)
(* The construction of a target and the debug-information queries on      *)
(* their own: each is applied once to an input drawn from the sets below.  *)
(***************************************************************************)
\* The longest .debug_info drawn, in entries.
MaxEntries == 5

\* Well-formed trees in section order: "node" is an entry whose abbreviation
\* has children, "leaf" one that has none, "null" ends a list of children.
\* The first entry is the root of the unit and the last ends its children.
InfoShapes ==
    LET Step(kind) == CASE kind = "node" -> 1 [] kind = "null" -> -1
                        [] OTHER -> 0
        depth[sh \in UNION {[1 .. n -> {"null", "leaf", "node"}] :
                                n \in 2 .. MaxEntries}] ==
            [k \in 0 .. Len(sh) |->
                IF k = 0 THEN 0
                ELSE LET below[i \in 0 .. k] ==
                             IF i = 0 THEN 0 ELSE below[i - 1] + Step(sh[i])
                     IN below[k]]
    IN UNION {{sh \in [1 .. n -> {"null", "leaf", "node"}] :
                  /\ sh[1] = "node"
                  /\ \A k \in 1 .. n - 1 : depth[sh][k] >= 1
                  /\ depth[sh][n] = 0} : n \in 2 .. MaxEntries}

\* What an entry below the root may be: tag, low_pc, high_pc, name.
DiePrototypes ==
    { <<"subprogram", 0, 2, "f">>, <<"subprogram", 1, 3, "g">>,
      <<"subprogram", 0, 3, NoName>>, <<"subprogram", NullAddr, NullAddr, "h">>,
      <<"inlined_subroutine", 1, 2, "f">>, <<"inlined_subroutine", 0, 1, "g">>,
      <<"lexical_block", NullAddr, NullAddr, NoName>> }

\* The .debug_info of shape sh whose entries below the root are as deco says.
Layout(sh, deco) ==
    [k \in 1 .. Len(sh) |->
        IF sh[k] = "null" THEN NullEntry
        ELSE IF k = 1 THEN Entry("compile_unit", TRUE, 0, 0, 3, "unit")
        ELSE Entry(deco[k][1], sh[k] = "node", 0,
                   deco[k][2], deco[k][3], deco[k][4])]

InfoInputs ==
    {Dies} \cup UNION {{Layout(sh, deco) :
                            deco \in [{k \in 2 .. Len(sh) : sh[k] # "null"}
                                         -> DiePrototypes]} :
                       sh \in InfoShapes}

\* The file addresses asked for; NullAddr is an address of no section of
\* this ELF.
FileAddrs == {NullAddr} \cup (0 .. TextEnd - 1)

\* The nesting level of every position of the section (and of the position
\* after its end): one deeper after an entry with children, one back after a
\* null entry.
Level(info) ==
    LET level[k \in 1 .. Len(info) + 1] ==
            IF k = 1 THEN 0
            ELSE level[k - 1]
                 + (IF info[k - 1].has_children THEN 1 ELSE 0)
                 - (IF info[k - 1].tag = "null" THEN 1 ELSE 0)
    IN level

\* The position that follows the entry at die and all below it: where its
\* next sibling, or the null entry that ends its parent's list, stands.
SiblingOf(info, die) ==
    LET after == {q \in die + 1 .. Len(info) + 1 :
                     Level(info)[q] = Level(info)[die]}
    IN CHOOSE q \in after : \A r \in after : q <= r

\* The direct children of the entry at position die as the section lays
\* them out: the entries one level below it, up to the null entry that ends
\* its list.
DirectChildren(info, die) ==
    IF ~info[die].has_children THEN {}
    ELSE {q \in die + 1 .. SiblingOf(info, die) - 1 :
             /\ info[q].tag # "null"
             /\ Level(info)[q] = Level(info)[die] + 1}

\* The sections drawn for the children iterator: every tree, with
\* DW_AT_sibling on any of its entries that have children.
ChildrenInputs ==
    LET Plain(sh) ==
            Layout(sh, [k \in 1 .. Len(sh) |->
                           <<"lexical_block", NullAddr, NullAddr, NoName>>])
        Nodes(info) == {k \in 2 .. Len(info) : info[k].has_children}
        WithSiblings(info, with) ==
            [k \in 1 .. Len(info) |->
                [info[k] EXCEPT !.sibling = IF k \in with
                                           THEN SiblingOf(info, k) ELSE 0]]
    IN UNION {{WithSiblings(info, with) : with \in SUBSET Nodes(info)} :
                 info \in {Dies} \cup {Plain(sh) : sh \in InfoShapes}}

\* The ELF symbol tables drawn, and the names asked for.
SymbolTables ==
    SUBSET {[name |-> "f", addr |-> 0], [name |-> "h", addr |-> 1]}
FunctionNames == {"f", "g", "h"}

\* sdb::elf::get_symbols_by_name
get_symbols_by_name(symbols, name) == {sym \in symbols : sym.name = name}

\* sdb::dwarf::find_functions: function_index_.equal_range(name)
dwarf_find_functions(info, name) ==
    {entry \in index_die(info, 1) : info[entry].name = name}

\* Variant: the ELF symbols are added whatever DWARF found.
find_functions_merged(info, symbols, name) ==
    [dwarf_functions |-> dwarf_find_functions(info, name),
     elf_functions |-> get_symbols_by_name(symbols, name)]

\* sdb::target::find_functions
find_functions(info, symbols, name) ==
    LET dwarf_found == dwarf_find_functions(info, name) IN
    IF dwarf_found = {}
    THEN [dwarf_functions |-> {},
          elf_functions |-> get_symbols_by_name(symbols, name)]
    ELSE [dwarf_functions |-> dwarf_found, elf_functions |-> {}]

\* The most compile units a drawn .debug_info holds.
MaxUnits == 2

\* unit_length 0xffffffff, the escape of 64-bit DWARF; the 32-bit field is
\* cut down to 16 bits.
Dwarf64Escape == 65535

\* The unit headers drawn: unit_length, version, address_size.
UnitHeaders ==
    [unit_length : {7, Dwarf64Escape}, version : {4, 5},
     address_size : {4, 8}]

\* parse_compile_unit: the unit, or the error it sends
parse_compile_unit(header) ==
    IF header.unit_length = Dwarf64Escape
    THEN [outcome |-> "error", msg |-> "Only DWARF32 is supported"]
    ELSE IF header.version # 4
    THEN [outcome |-> "error", msg |-> "Only DWARF version 4 is supported"]
    ELSE IF header.address_size # 8
    THEN [outcome |-> "error", msg |-> "Invalid address size for DWARF"]
    ELSE [outcome |-> "ok", msg |-> "", unit |-> header]

\* The bytes of a unit header: unit_length (u32), version (u16),
\* debug_abbrev_offset (u32), address_size (u8).  A drawn section is a
\* sequence of header-sized slots; the cursor counts bytes.
HeaderSize == 11

\* parse_compile_unit: size += sizeof(std::uint32_t), in the width of
\* unit_length
unit_size(header) == (header.unit_length + 4) % (Dwarf64Escape + 1)

\* cursor::finished
finished(section, cur) == cur >= HeaderSize * Len(section)

\* Variant: a unit that cannot be parsed is left out and the loop goes on.
RECURSIVE parse_compile_units_skipping(_, _, _, _)
parse_compile_units_skipping(section, cur, units, data) ==
    IF finished(section, cur)
    THEN [outcome |-> "ok", msg |-> "", units |-> units, data |-> data]
    ELSE LET header == section[cur \div HeaderSize + 1]
             unit == parse_compile_unit(header)
         IN IF unit.outcome = "error"
            THEN parse_compile_units_skipping(section, cur + HeaderSize,
                                              units, data)
            ELSE parse_compile_units_skipping(
                     section, cur + unit_size(header),
                     Append(units, unit.unit),
                     Append(data, [start |-> cur,
                                   size |-> unit_size(header)]))

\* parse_compile_units: the loop over the section, the cursor at byte cur;
\* units holds the headers of the units made, data their spans.  An error
\* sent by parse_compile_unit leaves the function and the units parsed so
\* far are destroyed with it.  A unit of size 0 leaves the cursor where it
\* is: the loop reads the same header again and never ends.
RECURSIVE parse_compile_units(_, _, _, _)
parse_compile_units(section, cur, units, data) ==
    IF finished(section, cur)
    THEN [outcome |-> "ok", msg |-> "", units |-> units, data |-> data]
    ELSE LET header == section[cur \div HeaderSize + 1]
             unit == parse_compile_unit(header)
         IN IF unit.outcome = "error"
            THEN [outcome |-> "error", msg |-> unit.msg, units |-> <<>>,
                  data |-> <<>>]
            ELSE IF unit_size(header) = 0
            THEN [outcome |-> "diverges", msg |-> "",
                  units |-> Append(units, unit.unit),
                  data |-> Append(data, [start |-> cur, size |-> 0])]
            ELSE parse_compile_units(
                     section, cur + unit_size(header),
                     Append(units, unit.unit),
                     Append(data, [start |-> cur,
                                   size |-> unit_size(header)]))

\* The headers drawn for the loop over a section: a unit of one slot, one of
\* two slots, and the unit_length 0xfffffffc (in the width of the model).
UnitLengths == {7, 18, Dwarf64Escape - 3}

\* The longest line table drawn, in rows, and the addresses of its rows.
MaxRows == 4
RowAddrs == 0 .. 2

\* The longest line-number program drawn, in instructions, its last being
\* DW_LNE_end_sequence.
MaxProgram == 5

\* The address register is an unsigned 64-bit integer, cut down to 3 bits.
AddrModulus == 8

\* The line register is an unsigned 64-bit integer, cut down to 3 bits.
LineModulus == 8

\* The DW_LNS_ and DW_LNE_ opcode constants
LNS ==
    [DW_LNS_copy |-> 1, DW_LNS_advance_pc |-> 2, DW_LNS_advance_line |-> 3,
     DW_LNS_set_file |-> 4, DW_LNS_set_column |-> 5,
     DW_LNS_negate_stmt |-> 6, DW_LNS_set_basic_block |-> 7,
     DW_LNS_const_add_pc |-> 8, DW_LNS_fixed_advance_pc |-> 9,
     DW_LNS_set_prologue_end |-> 10, DW_LNS_set_epilogue_begin |-> 11,
     DW_LNS_set_isa |-> 12]
LNE ==
    [DW_LNE_end_sequence |-> 1, DW_LNE_set_address |-> 2,
     DW_LNE_define_file |-> 3, DW_LNE_set_discriminator |-> 4]

\* An instruction as the cursor decodes it: the opcode byte, the extended
\* opcode after a zero opcode byte, and the operand.
Standard(opcode, arg) == [opcode |-> opcode, ext |-> 0, arg |-> arg]
Extended(ext, arg) == [opcode |-> 0, ext |-> ext, arg |-> arg]
Special(opcode) == [opcode |-> opcode, ext |-> 0, arg |-> 0]

\* The header fields of a line table the instructions depend on; the first
\* is what compilers emit for x86-64, the second has fewer standard opcodes.
LineTableShapes ==
    { [opcode_base |-> 13, line_base |-> -5, line_range |-> 14],
      [opcode_base |-> 10, line_base |-> -1, line_range |-> 4] }
LineTables ==
    { [default_is_stmt_ |-> d, opcode_base_ |-> sh.opcode_base,
       line_base_ |-> sh.line_base, line_range_ |-> sh.line_range] :
          d \in BOOLEAN, sh \in LineTableShapes }
ProgramTable ==
    [default_is_stmt_ |-> TRUE, opcode_base_ |-> 13, line_base_ |-> -5,
     line_range_ |-> 14]

\* The instructions of the drawn programs: standard opcodes with their
\* operand, the special opcode that advances the address by one and leaves
\* the line, and extended opcodes.
LineInstructions ==
    { Standard(LNS.DW_LNS_copy, 0),
      Standard(LNS.DW_LNS_advance_pc, 1),
      Standard(LNS.DW_LNS_advance_pc, AddrModulus - 1),
      Standard(LNS.DW_LNS_negate_stmt, 0),
      Special(32),
      Extended(LNE.DW_LNE_set_address, 0),
      Extended(LNE.DW_LNE_set_address, 2),
      Extended(LNE.DW_LNE_end_sequence, 0) }

LinePrograms ==
    UNION {{Append(body, Extended(LNE.DW_LNE_end_sequence, 0)) :
               body \in [1 .. n -> LineInstructions]} :
           n \in 0 .. MaxProgram - 1}

\* entry{}: the default member initializers of line_table::entry
DefaultEntry ==
    [address |-> 0, file_index |-> 1, line |-> 1, column |-> 0,
     is_stmt |-> FALSE, basic_block_start |-> FALSE, end_sequence |-> FALSE,
     prologue_end |-> FALSE, epilogue_begin |-> FALSE, discriminator |-> 0]

\* line_table::iterator::iterator: registers_ before the first instruction
InitialRegisters(table) ==
    [DefaultEntry EXCEPT !.is_stmt = table.default_is_stmt_]

\* Variant: the discriminator outlives the row.
emit_keeps_discriminator(registers) ==
    [registers EXCEPT !.basic_block_start = FALSE, !.prologue_end = FALSE,
                      !.epilogue_begin = FALSE]

\* execute_instruction, after current_ = registers_ of DW_LNS_copy and of a
\* special opcode
emit_reset(registers) ==
    [registers EXCEPT !.basic_block_start = FALSE, !.prologue_end = FALSE,
                      !.epilogue_begin = FALSE, !.discriminator = 0]

\* Variant: the line advance leaves out line_base.
special_advance_no_base(table, opcode, registers) ==
    LET adjusted_opcode == opcode - table.opcode_base_ IN
    [registers EXCEPT
        !.address = (registers.address
                     + (adjusted_opcode \div table.line_range_)) % AddrModulus,
        !.line = (registers.line
                  + (adjusted_opcode % table.line_range_)) % LineModulus]

\* execute_instruction, special opcode: the registers the row is copied from
special_advance(table, opcode, registers) ==
    LET adjusted_opcode == opcode - table.opcode_base_ IN
    [registers EXCEPT
        !.address = (registers.address
                     + (adjusted_opcode \div table.line_range_)) % AddrModulus,
        !.line = (registers.line + table.line_base_
                  + (adjusted_opcode % table.line_range_)) % LineModulus]

\* line_table::iterator::execute_instruction: the registers after the
\* instruction, whether it emitted a row, and the row (current_)
execute_instruction(table, ins, registers) ==
    LET Quiet(after) == [emitted |-> FALSE, error |-> "",
                         current |-> registers, registers |-> after]
        Row(row, after) == [emitted |-> TRUE, error |-> "",
                            current |-> row, registers |-> after]
        Fails(msg) == [emitted |-> FALSE, error |-> msg,
                       current |-> registers, registers |-> registers]
        opcode == ins.opcode
    IN IF opcode > 0 /\ opcode < table.opcode_base_
       THEN CASE opcode = LNS.DW_LNS_copy ->
                   Row(registers, emit_reset(registers))
              [] opcode = LNS.DW_LNS_advance_pc ->
                   Quiet([registers EXCEPT
                       !.address = (registers.address + ins.arg)
                                   % AddrModulus])
              [] opcode = LNS.DW_LNS_advance_line ->
                   Quiet([registers EXCEPT
                       !.line = (registers.line + ins.arg) % LineModulus])
              [] opcode = LNS.DW_LNS_set_file ->
                   Quiet([registers EXCEPT !.file_index = ins.arg])
              [] opcode = LNS.DW_LNS_set_column ->
                   Quiet([registers EXCEPT !.column = ins.arg])
              [] opcode = LNS.DW_LNS_negate_stmt ->
                   Quiet([registers EXCEPT !.is_stmt = ~registers.is_stmt])
              [] opcode = LNS.DW_LNS_set_basic_block ->
                   Quiet([registers EXCEPT !.basic_block_start = TRUE])
              [] opcode = LNS.DW_LNS_const_add_pc ->
                   Quiet([registers EXCEPT
                       !.address = (registers.address
                                    + ((255 - table.opcode_base_)
                                      \div table.line_range_)) % AddrModulus])
              [] opcode = LNS.DW_LNS_fixed_advance_pc ->
                   Quiet([registers EXCEPT
                       !.address = (registers.address + ins.arg)
                                   % AddrModulus])
              [] opcode = LNS.DW_LNS_set_prologue_end ->
                   Quiet([registers EXCEPT !.prologue_end = TRUE])
              [] opcode = LNS.DW_LNS_set_epilogue_begin ->
                   Quiet([registers EXCEPT !.epilogue_begin = TRUE])
              [] opcode = LNS.DW_LNS_set_isa -> Quiet(registers)
              [] OTHER -> Fails("Unexpected standard opcode")
       ELSE IF opcode = 0
       THEN CASE ins.ext = LNE.DW_LNE_end_sequence ->
                   Row([registers EXCEPT !.end_sequence = TRUE],
                       [DefaultEntry EXCEPT
                           !.is_stmt = table.default_is_stmt_])
              [] ins.ext = LNE.DW_LNE_set_address ->
                   Quiet([registers EXCEPT !.address = ins.arg])
              [] ins.ext = LNE.DW_LNE_set_discriminator ->
                   Quiet([registers EXCEPT !.discriminator = ins.arg])
              [] OTHER -> Fails("Unexpected extended opcode")
       ELSE LET after == special_advance(table, opcode, registers) IN
            Row(after, emit_reset(after))

\* line_table::begin() .. end(): the rows operator++ stops at, in order
RECURSIVE line_table_rows(_, _, _)
line_table_rows(table, program, registers) ==
    IF program = <<>> THEN <<>>
    ELSE LET step == execute_instruction(table, Head(program), registers) IN
         IF step.error # "" THEN <<>>
         ELSE (IF step.emitted THEN <<step.current>> ELSE <<>>)
              \o line_table_rows(table, Tail(program), step.registers)

\* The instructions and registers one call of execute_instruction is drawn
\* from: every opcode the switch names, opcodes on both sides of
\* opcode_base, and registers with every flag either way.
StepInstructions ==
    { Standard(LNS.DW_LNS_copy, 0), Standard(LNS.DW_LNS_advance_pc, 1),
      Standard(LNS.DW_LNS_advance_line, 1),
      Standard(LNS.DW_LNS_advance_line, -1),
      Standard(LNS.DW_LNS_set_file, 2), Standard(LNS.DW_LNS_set_column, 3),
      Standard(LNS.DW_LNS_negate_stmt, 0),
      Standard(LNS.DW_LNS_set_basic_block, 0),
      Standard(LNS.DW_LNS_const_add_pc, 0),
      Standard(LNS.DW_LNS_fixed_advance_pc, 1),
      Standard(LNS.DW_LNS_set_prologue_end, 0),
      Standard(LNS.DW_LNS_set_epilogue_begin, 0),
      Standard(LNS.DW_LNS_set_isa, 0),
      Special(13), Special(14), Special(27), Special(32), Special(255),
      Extended(LNE.DW_LNE_end_sequence, 0),
      Extended(LNE.DW_LNE_set_address, 2),
      Extended(LNE.DW_LNE_set_discriminator, 4),
      Extended(128, 0) }
StepRegisters ==
    { [address |-> a, file_index |-> f.file_index, line |-> l,
       column |-> f.column, is_stmt |-> st, basic_block_start |-> fl[1],
       end_sequence |-> FALSE, prologue_end |-> fl[2],
       epilogue_begin |-> fl[3], discriminator |-> d] :
          a \in {0, AddrModulus - 1}, l \in {0, 1},
          f \in {[file_index |-> 1, column |-> 0],
                 [file_index |-> 2, column |-> 3]},
          st \in BOOLEAN, fl \in [1 .. 3 -> BOOLEAN], d \in {0, 4} }

\* The most bytes drawn at the cursor; the section goes on with zero bytes.
MaxBytes == 2
ByteVals == {0, 1, 11, 20, 22, 129}
SectionBytes ==
    {prefix \o <<0, 0, 0, 0, 0, 0, 0, 0, 0>> :
        prefix \in UNION {[1 .. n -> ByteVals] : n \in 0 .. MaxBytes}}

\* The attribute forms named by the DW_FORM_ constants, and a form code
\* that names none.
Forms ==
    {"addr", "block2", "block4", "data2", "data4", "data8", "string",
     "block", "block1", "data1", "flag", "sdata", "strp", "udata",
     "ref_addr", "ref1", "ref2", "ref4", "ref8", "ref_udata", "indirect",
     "sec_offset", "exprloc", "flag_present", "ref_sig8", "unknown"}

\* The form a form code read from the section stands for.
FormOfCode(code) ==
    CASE code = 1 -> "addr" [] code = 3 -> "block2" [] code = 4 -> "block4"
      [] code = 5 -> "data2" [] code = 6 -> "data4" [] code = 7 -> "data8"
      [] code = 8 -> "string" [] code = 9 -> "block" [] code = 10 -> "block1"
      [] code = 11 -> "data1" [] code = 12 -> "flag" [] code = 13 -> "sdata"
      [] code = 14 -> "strp" [] code = 15 -> "udata" [] code = 16 -> "ref_addr"
      [] code = 17 -> "ref1" [] code = 18 -> "ref2" [] code = 19 -> "ref4"
      [] code = 20 -> "ref8" [] code = 21 -> "ref_udata"
      [] code = 22 -> "indirect" [] code = 23 -> "sec_offset"
      [] code = 24 -> "exprloc" [] code = 25 -> "flag_present"
      [] code = 32 -> "ref_sig8" [] OTHER -> "unknown"

\* cursor::fixed_int<T>: size bytes at cur, little-endian; cur counts the
\* bytes before the cursor.
RECURSIVE fixed_int(_, _, _)
fixed_int(data, cur, size) ==
    IF size = 0 THEN 0
    ELSE data[cur + 1] + 256 * fixed_int(data, cur + 1, size - 1)

\* cursor::uleb128 (and the bytes cursor::sleb128 reads): value and cursor
RECURSIVE uleb128(_, _)
uleb128(data, cur) ==
    LET byte == data[cur + 1]
        masked == byte % 128
    IN IF byte >= 128
       THEN LET rest == uleb128(data, cur + 1) IN
            [value |-> masked + 128 * rest.value, cur |-> rest.cur]
       ELSE [value |-> masked, cur |-> cur + 1]

\* cursor::skip_form, DW_FORM_string: up to and over the null byte
RECURSIVE skip_string(_, _)
skip_string(data, cur) ==
    IF cur < Len(data) /\ data[cur + 1] # 0
    THEN skip_string(data, cur + 1) ELSE cur + 1

\* cursor::skip_form: the cursor after the call, or the error it sends
RECURSIVE skip_form(_, _, _)
skip_form(form, data, cur) ==
    LET Ok(to) == [outcome |-> "ok", msg |-> "", cur |-> to] IN
    CASE form = "flag_present" -> Ok(cur)
      [] form \in {"data1", "ref1", "flag"} -> Ok(cur + 1)
      [] form \in {"data2", "ref2"} -> Ok(cur + 2)
      [] form \in {"data4", "ref4", "ref_addr", "sec_offset", "strp"} ->
           Ok(cur + 4)
      [] form \in {"data8", "addr"} -> Ok(cur + 8)
      [] form = "sdata" -> Ok(uleb128(data, cur).cur)
      [] form \in {"udata", "ref_udata"} -> Ok(uleb128(data, cur).cur)
      [] form = "block1" -> Ok(cur + 1 + fixed_int(data, cur, 1))
      [] form = "block2" -> Ok(cur + 2 + fixed_int(data, cur, 2))
      [] form = "block4" -> Ok(cur + 4 + fixed_int(data, cur, 4))
      [] form \in {"block", "exprloc"} ->
           Ok(uleb128(data, cur).cur + uleb128(data, cur).value)
      [] form = "string" -> Ok(skip_string(data, cur))
      [] form = "indirect" ->
           skip_form(FormOfCode(uleb128(data, cur).value), data,
                     uleb128(data, cur).cur)
      [] OTHER -> [outcome |-> "error", msg |-> "Unrecognized DWARF form",
                   cur |-> cur]

\* The most address pairs drawn for a range list before its terminator.
MaxPairs == 3

\* ~static_cast<std::uint64_t>(0), in the address width of the model
base_address_flag == AddrModulus - 1

\* The .debug_ranges bytes from the list's offset on, as the u64 pairs the
\* cursor reads: drawn pairs, then the (0, 0) terminator.
RangePairs == [low : {0, 1, base_address_flag}, high : {0, 1, 2}]
RangeLists ==
    {body \o <<[low |-> 0, high |-> 0]>> :
        body \in UNION {[1 .. n -> RangePairs] : n \in 0 .. MaxPairs}}

\* attr::as_range_list: the base is the CU root's DW_AT_low_pc, or
\* file_addr{} when the root has none (low_pc = NullAddr)
as_range_list(root_low_pc, data) ==
    [data_ |-> data,
     base_address_ |-> IF root_low_pc # NullAddr THEN root_low_pc ELSE 0]

\* Variant: a base selector is emitted like a range.
RECURSIVE range_list_increment_flat(_, _)
range_list_increment_flat(data, it) ==
    LET low == data[it.pos_].low
        high == data[it.pos_].high
    IN IF low = 0 /\ high = 0
       THEN [it EXCEPT !.pos_ = 0,
                       !.current_ = [low |-> low, high |-> high]]
       ELSE [it EXCEPT !.pos_ = it.pos_ + 1,
                !.current_ = [low |-> (low + it.base_address_) % AddrModulus,
                              high |-> (high + it.base_address_) % AddrModulus]]

\* range_list::iterator::operator++; pos_ is the index of the next pair
\* to read, 0 for nullptr
RECURSIVE range_list_increment(_, _)
range_list_increment(data, it) ==
    LET low == data[it.pos_].low
        high == data[it.pos_].high
    IN IF low = base_address_flag
       THEN range_list_increment(data,
                [it EXCEPT !.pos_ = it.pos_ + 1, !.base_address_ = high,
                           !.current_ = [low |-> low, high |-> high]])
       ELSE IF low = 0 /\ high = 0
       THEN [it EXCEPT !.pos_ = 0,
                       !.current_ = [low |-> low, high |-> high]]
       ELSE [it EXCEPT !.pos_ = it.pos_ + 1,
                !.current_ = [low |-> (low + it.base_address_) % AddrModulus,
                              high |-> (high + it.base_address_) % AddrModulus]]

\* range_list::begin(): the iterator's constructor ends with ++(*this)
range_list_begin(list) ==
    range_list_increment(list.data_,
        [pos_ |-> 1, base_address_ |-> list.base_address_,
         current_ |-> [low |-> 0, high |-> 0]])

\* for (auto& e : list): the entries visited up to the iterator that
\* compares equal to end(), whose pos_ is nullptr (0)
RECURSIVE range_list_visit(_, _, _)
range_list_visit(data, it, visited) ==
    IF it.pos_ = 0 THEN [entries |-> visited, last |-> it.pos_]
    ELSE range_list_visit(data, range_list_increment(data, it),
                          Append(visited, it.current_))

\* The entries index_die is called on, from current down
RECURSIVE index_die_calls(_, _)
index_die_calls(info, current) ==
    LET kids == children(info, current) IN
    {current} \cup UNION {index_die_calls(info, kids[k]) : k \in 1 .. Len(kids)}

\* dwarf::index on an object whose function_index_ holds the given entries:
\* the index afterwards and the entries traversed by the call
index(info, function_index_) ==
    IF function_index_ # {}
    THEN [function_index_ |-> function_index_, traversed |-> {}]
    ELSE [function_index_ |-> index_die(info, 1),
          traversed |-> index_die_calls(info, 1)]

\* The longest chain of type DIEs drawn, each the DW_AT_type of the one
\* before it.
MaxChain == 3

\* A type DIE: its tag and its DW_AT_encoding (NoEncoding: no such
\* attribute).  The last DIE of a chain has no DW_AT_type.
NoEncoding == "none"
CvTypedefTags == {"DW_TAG_const_type", "DW_TAG_volatile_type", "DW_TAG_typedef"}
TypeChains ==
    UNION {{wrappers \o <<last>> :
               wrappers \in [1 .. n -> [tag : CvTypedefTags,
                                        encoding : {NoEncoding}]],
               last \in [tag : CvTypedefTags \cup
                               {"DW_TAG_base_type", "DW_TAG_enumeration_type",
                                "DW_TAG_pointer_type"},
                         encoding : {NoEncoding, "DW_ATE_signed_char",
                                     "DW_ATE_unsigned_char",
                                     "DW_ATE_signed"}]} :
           n \in 0 .. MaxChain - 1}

\* type::strip<Tags...>: follows DW_AT_type while the tag is one of Tags;
\* <<>> when a DIE to follow has no DW_AT_type (die::operator[] fails)
RECURSIVE strip(_, _)
strip(Tags, chain) ==
    IF chain = <<>> THEN <<>>
    ELSE IF Head(chain).tag \in Tags THEN strip(Tags, Tail(chain))
    ELSE chain

\* type::is_char_type, on a chain strip_cv_typedef gets through
is_char_type(chain) ==
    LET stripped == Head(strip(CvTypedefTags, chain))
        encoding == stripped.encoding
    IN IF encoding = NoEncoding THEN FALSE
       ELSE (stripped.tag = "DW_TAG_base_type"
             /\ encoding = "DW_ATE_signed_char")
            \/ encoding = "DW_ATE_unsigned_char"

\* The most abbreviation declarations drawn for a table.
MaxDecls == 2

\* The declarations drawn: code, tag, has_children byte and the attribute
\* specifications (name, form), all below 128 so that each is one byte.
AbbrevDecls ==
    [code : {1, 2}, tag : {17, 46}, has_children : {0, 1},
     attr_specs : {<<>>, <<[attr |-> 3, form |-> 8]>>,
                   <<[attr |-> 17, form |-> 1], [attr |-> 18, form |-> 7]>>}]

\* The bytes of a declaration and of a table as .debug_abbrev holds them:
\* each attribute list closed by (0, 0), the table closed by the code 0.
RECURSIVE AttrBytes(_)
AttrBytes(specs) ==
    IF specs = <<>> THEN <<0, 0>>
    ELSE <<Head(specs).attr, Head(specs).form>> \o AttrBytes(Tail(specs))
RECURSIVE TableBytes(_)
TableBytes(decls) ==
    IF decls = <<>> THEN <<0>>
    ELSE <<Head(decls).code, Head(decls).tag, Head(decls).has_children>>
         \o AttrBytes(Head(decls).attr_specs) \o TableBytes(Tail(decls))

\* What lies behind a table's terminator: the next table of the section, or
\* the memory behind the section when the table is its last.
BytesBehind ==
    { <<0, 0, 0, 0>>, <<17, 1, 3, 8, 0, 0>>, <<1, 0, 5, 5, 0, 1>> }

\* parse_abbrev_table, the inner do-while: the specifications stored and
\* the cursor behind the pair that ended the list
RECURSIVE parse_attr_specs(_, _, _)
parse_attr_specs(data, cur, attr_specs) ==
    LET attr == uleb128(data, cur)
        form == uleb128(data, attr.cur)
    IN IF attr.value # 0
       THEN parse_attr_specs(data, form.cur,
                Append(attr_specs, [attr |-> attr.value, form |-> form.value]))
       ELSE [attr_specs |-> attr_specs, cur |-> form.cur]

\* parse_abbrev_table, the outer do-while from the cursor on: the table
\* (emplace keeps the entry a code already has) and the cursor at the end
RECURSIVE parse_abbrev_table(_, _, _)
parse_abbrev_table(data, cur, table) ==
    LET code == uleb128(data, cur)
        tag == uleb128(data, code.cur)
        has_children == data[tag.cur + 1] # 0
        specs == parse_attr_specs(data, tag.cur + 1, <<>>)
        entry == [code |-> code.value, tag |-> tag.value,
                  has_children |-> has_children,
                  attr_specs |-> specs.attr_specs]
    IN IF code.value # 0
       THEN parse_abbrev_table(data, specs.cur,
                IF \E e \in table : e.code = code.value THEN table
                ELSE table \cup {entry})
       ELSE [table |-> table, cur |-> specs.cur]

\* The most stoppoints pushed to the collection drawn.
MaxPushes == 3

\* The stoppoints pushed: ids may repeat, the address tells the pushes of
\* one id apart.
PushSequences ==
    UNION {{[k \in 1 .. n |-> [id |-> ids[k], address |-> k]] :
               ids \in [1 .. n -> {1, 2}]} : n \in 0 .. MaxPushes}

\* stoppoint_collection::push
push(stoppoints_, bs) == Append(stoppoints_, bs)

\* Variant: the latest stoppoint with the id is found.
find_by_id_latest(stoppoints_, id) ==
    LET hits == {k \in 1 .. Len(stoppoints_) : stoppoints_[k].id = id} IN
    IF hits = {} THEN 0
    ELSE CHOOSE k \in hits : \A other \in hits : other <= k

\* stoppoint_collection::find_by_id (std::find_if): the index of the first
\* stoppoint with the id, 0 for end(stoppoints_)
find_by_id(stoppoints_, id) ==
    LET hits == {k \in 1 .. Len(stoppoints_) : stoppoints_[k].id = id} IN
    IF hits = {} THEN 0
    ELSE CHOOSE k \in hits : \A other \in hits : k <= other

\* stoppoint_collection::contains_id
contains_id(stoppoints_, id) == find_by_id(stoppoints_, id) # 0

\* stoppoint_collection::get_by_id: the stoppoint referred to or the error
\* sent, and the collection afterwards
get_by_id(stoppoints_, id) ==
    LET it == find_by_id(stoppoints_, id) IN
    IF it = 0
    THEN [outcome |-> "error", msg |-> "Invalid stoppoint id", it |-> 0,
          stoppoints_ |-> stoppoints_]
    ELSE [outcome |-> "ok", msg |-> "", it |-> it,
          stoppoints_ |-> stoppoints_]

\* The collection after the pushes, from an empty one
RECURSIVE pushed(_, _)
pushed(stoppoints_, pushes) ==
    IF pushes = <<>> THEN stoppoints_
    ELSE pushed(push(stoppoints_, Head(pushes)), Tail(pushes))

\* A query returns: the result and the input it was computed from.
Returned(result) ==
    /\ pos = "query" /\ pos' = "idle"
    /\ ret' = [op |-> loc.op, input |-> loc, result |-> result]
    /\ loc' = NoLoc
    /\ UNCHANGED <<kernelVars, procVars, siteVars, targetVars, frame, written>>

\* sdb::target::launch / sdb::target::attach once process::launch /
\* process::attach has returned the process: the elf is loaded and the
\* target constructed.
TargetCreate ==
    /\ loc.op = "target"
    /\ Returned(target_ctor(loc.proc, create_loaded_elf))

\* sdb::dwarf::dwarf: compile_units_ = parse_compile_units(*this, parent)
DwarfCreate ==
    /\ loc.op = "dwarf"
    /\ Returned(parse_compile_units(loc.section, 0, <<>>, <<>>))

\* parse_compile_units on a section whose units need not fill their slots
ParseCompileUnits ==
    /\ loc.op = "parse_compile_units"
    /\ Returned(parse_compile_units(loc.section, 0, <<>>, <<>>))

\* sdb::dwarf::function_containing_address: the index is an unordered
\* multimap, the scan may meet any of the matching entries first.
FunctionContainingAddress ==
    /\ loc.op = "function_containing_address"
    /\ LET func == function_containing_address(loc.info, loc.address) IN
       IF func = {} THEN Returned(0)
       ELSE \E d \in func : Returned(d)

\* sdb::dwarf::inline_stack_at_address
InlineStackAtAddress ==
    /\ loc.op = "inline_stack_at_address"
    /\ LET func == function_containing_address(loc.info, loc.address) IN
       IF func = {} THEN Returned(<<>>)
       ELSE \E d \in func : Returned(inline_walk(loc.info, <<d>>, loc.address))

\* sdb::line_table::get_entry_by_address
GetEntryByAddress ==
    /\ loc.op = "get_entry_by_address"
    /\ Returned(get_entry_by_address(loc.rows, loc.address))

\* for (auto it = table.begin(); it != table.end(); ++it)
IterateLineTable ==
    /\ loc.op = "line_table"
    /\ Returned(line_table_rows(ProgramTable, loc.program,
                                InitialRegisters(ProgramTable)))

\* one call of line_table::iterator::execute_instruction
ExecuteInstruction ==
    /\ loc.op = "execute_instruction"
    /\ Returned(execute_instruction(loc.table, loc.ins, loc.registers))

\* die::children(): ++ on an iterator at the entry, and the range-for over
\* the children of the entry up to the iterator that equals end()
IterateChildren ==
    /\ loc.op = "children"
    /\ loc.die <= Len(loc.info) /\ loc.info[loc.die].has_children
    /\ Returned([next |-> children_increment(loc.info,
                                             parse_die(loc.info, loc.die)),
                 visited |-> children(loc.info, loc.die),
                 end |-> children_skip(loc.info,
                                       parse_die(loc.info, loc.die + 1))])

FindFunctions ==
    /\ loc.op = "find_functions"
    /\ Returned(find_functions(loc.info, loc.symbols, loc.name))

\* cursor::skip_form at the start of the drawn bytes
SkipForm ==
    /\ loc.op = "skip_form"
    /\ Returned(skip_form(loc.form, loc.data, 0))

\* attr::as_range_list and the range-for over the list
IterateRangeList ==
    /\ loc.op = "range_list"
    /\ LET list == as_range_list(loc.root_low_pc, loc.data) IN
       Returned(range_list_visit(list.data_, range_list_begin(list), <<>>))

\* The first lookup (function_containing_address or find_functions) of a
\* dwarf object and a later one: the call of index() each begins with
IndexLookups ==
    /\ loc.op = "index"
    /\ LET first == index(loc.info, {}) IN
       Returned([first |-> first,
                 later |-> index(loc.info, first.function_index_)])

\* sdb::type::is_char_type
IsCharType ==
    /\ loc.op = "is_char_type"
    /\ IF strip(CvTypedefTags, loc.chain) = <<>>
       THEN Returned([outcome |-> "error", value |-> FALSE])
       ELSE Returned([outcome |-> "ok", value |-> is_char_type(loc.chain)])

\* parse_abbrev_table at the offset of a table
ParseAbbrevTable ==
    /\ loc.op = "parse_abbrev_table"
    /\ Returned(parse_abbrev_table(TableBytes(loc.decls) \o loc.behind, 0, {}))

\* contains_id and get_by_id on a collection after a sequence of pushes
StoppointLookup ==
    /\ loc.op = "get_by_id"
    /\ LET stoppoints_ == pushed(<<>>, loc.pushes) IN
       Returned([contains |-> contains_id(stoppoints_, loc.id),
                 get |-> get_by_id(stoppoints_, loc.id)])

InitDwarf ==
    /\ kstate = "none" /\ traced = FALSE /\ kevent = NoEvent /\ user = ZeroRegs
    /\ obj = "none" /\ pid_ = 0 /\ state_ = "stopped"
    /\ terminate_on_end_ = TRUE /\ target_ = FALSE /\ by = "none"
    /\ data_ = ZeroRegs
    /\ sites = <<>> /\ next_site_id = 1
    /\ inline_height = 0
    /\ pos = "query" /\ frame = NoLoc
    /\ ret = NoRet
    /\ written = NoneWritten
    /\ \/ loc \in [op : {"target"}, by : {"launch", "attach"},
                    proc : {"process"}]
       \/ loc \in [op : {"dwarf"},
                    section : UNION {[1 .. n -> UnitHeaders] :
                                        n \in 1 .. MaxUnits}]
       \/ loc \in [op : {"function_containing_address",
                          "inline_stack_at_address"},
                    info : InfoInputs, address : FileAddrs]
       \/ loc \in [op : {"get_entry_by_address"},
                    rows : UNION {[1 .. n -> [address : RowAddrs,
                                              end_sequence : BOOLEAN]] :
                                     n \in 0 .. MaxRows},
                    address : RowAddrs]
       \/ loc \in [op : {"line_table"}, program : LinePrograms]
       \/ loc \in [op : {"children"}, info : ChildrenInputs,
                    die : 2 .. MaxEntries + 3]
       \/ loc \in [op : {"skip_form"}, form : Forms, data : SectionBytes]
       \/ loc \in [op : {"execute_instruction"}, table : LineTables,
                   ins : StepInstructions, registers : StepRegisters]
       \/ loc \in [op : {"range_list"}, root_low_pc : {NullAddr, 0, 2},
                   data : RangeLists]
       \/ loc \in [op : {"index"}, info : InfoInputs]
       \/ loc \in [op : {"is_char_type"}, chain : TypeChains]
       \/ loc \in [op : {"parse_abbrev_table"},
                   decls : UNION {[1 .. n -> AbbrevDecls] : n \in 0 .. MaxDecls},
                   behind : BytesBehind]
       \/ loc \in [op : {"get_by_id"}, pushes : PushSequences, id : 1 .. 3]
       \/ loc \in [op : {"parse_compile_units"},
                   section : UNION {[1 .. n -> [unit_length : UnitLengths,
                                                version : {4, 5},
                                                address_size : {8}]] :
                                       n \in 1 .. MaxUnits}]
       \/ loc \in [op : {"find_functions"}, info : InfoInputs,
                    symbols : SymbolTables, name : FunctionNames]

NextDwarf ==
    \/ TargetCreate
    \/ DwarfCreate
    \/ FunctionContainingAddress
    \/ InlineStackAtAddress
    \/ GetEntryByAddress
    \/ IterateLineTable
    \/ IterateChildren
    \/ SkipForm
    \/ ExecuteInstruction
    \/ IterateRangeList
    \/ IndexLookups
    \/ IsCharType
    \/ ParseAbbrevTable
    \/ StoppointLookup
    \/ ParseCompileUnits
    \/ FindFunctions

SpecDwarf == InitDwarf /\ [][NextDwarf]_vars

(***************************************************************************)
(* Claims about the process.                                               *)
(***************************************************************************)
\* C1: a launch whose child wrote bytes to the close-on-exec pipe reaps the
\* child with waitpid, fails with the child's message and yields no process
\* object; a launch yields a process object only when it read zero bytes.
C1_LaunchReportsChildFailure ==
    ret.op = "launch" =>
        /\ Len(ret.data) > 0 =>
              /\ ret.outcome = "error"
              /\ ret.msg = ret.data
              /\ HasCall(ret.log, Call("waitpid", 0))
              /\ ret.child = "reaped"
              /\ obj # "live"
        /\ ret.outcome = "ok" => Len(ret.data) = 0
        /\ obj = "live" => Len(ret.data) = 0

C1_Witness ==
    /\ ret.op = "launch" /\ ret.outcome = "error"
    /\ ret.data = <<"exec failed", ": ", "ENOENT">>

\* C2: once wait_on_signal has reported exited or terminated, a resume fails
\* and leaves the state as it was; the state is never running while the
\* tracee of the process object has been reaped.
C2_ResumeAfterExitFails ==
    /\ (ret.op = "resume" /\ ret.state \in {"exited", "terminated"}) =>
          (ret.outcome = "error" /\ state_ = ret.state)
    /\ (obj = "live" /\ kstate = "reaped") => state_ # "running"

C2_Witness ==
    /\ ret.op = "resume" /\ ret.state = "exited" /\ ret.outcome = "error"
    /\ kstate = "reaped"

\* C3: state() is stopped when launch or attach returns, running after every
\* successful resume, and after every wait_on_signal the state of the reason
\* returned: exited with the exit status, terminated with the signal, stopped
\* with the stop signal.
C3_StateFollowsCalls ==
    /\ (ret.op \in {"launch", "attach"} /\ ret.outcome = "ok") =>
          state_ = "stopped"
    /\ (ret.op = "resume" /\ ret.outcome = "ok") => state_ = "running"
    /\ (ret.op = "wait_on_signal" /\ ret.outcome = "ok") =>
          /\ state_ = ret.reason.reason
          /\ ret.reason.info = ret.event.val
          /\ ret.reason.reason =
                CASE ret.event.kind = "exit"   -> "exited"
                  [] ret.event.kind = "signal" -> "terminated"
                  [] ret.event.kind = "stop"   -> "stopped"

C3_Witness ==
    /\ ret.op = "wait_on_signal" /\ ret.outcome = "ok"
    /\ ret.event.kind = "signal" /\ state_ = "terminated"
    /\ by = "attach"

\* C4: a value written with write_by_id to a general purpose register while
\* the tracee is stopped is the value the tracee has in that register until
\* it has executed an instruction, in particular when it is resumed.
C4_RegisterWriteReachesTracee ==
    (obj = "live" /\ traced /\ kstate \in {"stopped", "running"}) =>
        \A r \in GPRs : written[r] # -1 => user[r] = written[r]

C4_Witness ==
    /\ obj = "live" /\ kstate = "running"
    /\ ret.op = "resume" /\ ret.outcome = "ok"
    /\ written["rsi"] = 1 /\ user["rsi"] = 1

\* C5: attach(0) fails before any ptrace(PTRACE_ATTACH) and yields no
\* process object.
C5_AttachZeroFails ==
    (ret.op = "attach" /\ ret.pid = 0) =>
        /\ ret.outcome = "error"
        /\ ~HasCall(ret.log, Call("ptrace", PTRACE_ATTACH))
        /\ obj # "live"

C5_Witness ==
    ret.op = "attach" /\ ret.pid = 0 /\ ret.outcome = "error"

\* C6: the destructor of a process with a non-zero pid stops a running
\* tracee first (SIGSTOP, waitpid), then detaches and continues it, and kills
\* and reaps it exactly when the process was made by launch.
C6_Teardown ==
    ret.op = "~process" =>
        /\ ret.log =
              (IF ret.state = "running"
               THEN <<Call("kill", SIGSTOP), Call("waitpid", 0)>> ELSE <<>>)
              \o <<Call("ptrace", PTRACE_DETACH), Call("kill", SIGCONT)>>
              \o (IF ret.by = "launch"
                  THEN <<Call("kill", SIGKILL), Call("waitpid", 0)>> ELSE <<>>)
        /\ (ret.by = "attach" /\ ret.before \in {"running", "stopped"}) =>
              ret.after = "running"
        /\ (ret.by = "launch" /\ ret.before \in {"running", "stopped", "zombie"}) =>
              ret.after = "reaped"

C6_Witness ==
    /\ ret.op = "~process" /\ ret.by = "attach" /\ ret.state = "running"
    /\ ret.before = "running" /\ ret.after = "running"

(***************************************************************************)
(* Claims about the target.                                                *)
(***************************************************************************)
\* C7: step_in with inline height 0, every instruction step a single-step
\* stop: the loop goes on only at a PC that has a line entry which is the
\* entry it started on or an end-sequence row, and it is left at a PC whose
\* line entry differs from the starting entry and is not an end-sequence
\* row, or that has no line entry.
C7_StepInLoop ==
    /\ (pos = "step_in" /\ loc.looped) =>
          LET e == line_entry_at_pc(data_.rip) IN
          e # EndIt /\ (e = loc.orig \/ LineRows[e].end_sequence)
    /\ (ret.op = "step_in" /\ ret.path \in {"line", "prologue"}) =>
          LET e == line_entry_at_pc(ret.after.pc) IN
          e = EndIt \/ (e # ret.orig /\ ~LineRows[e].end_sequence)

C7_Witness ==
    /\ ret.op = "step_in" /\ ret.path = "line" /\ ret.looped
    /\ ret.orig # EndIt
    /\ line_entry_at_pc(ret.after.pc) \notin {EndIt, ret.orig}

\* C8: step_in with inline height > 0 takes one from the inline height,
\* leaves the PC, the state of the process and the breakpoint sites as they
\* were, and returns stopped, SIGTRAP, single_step.
C8_StepInInlined ==
    (ret.op = "step_in" /\ ret.before.height > 0) =>
        /\ ret.outcome = "ok"
        /\ ret.after.height = ret.before.height - 1
        /\ ret.after.pc = ret.before.pc /\ ret.after.rip = ret.before.rip
        /\ ret.after.state = ret.before.state
        /\ ret.after.kstate = ret.before.kstate
        /\ ret.after.sites = ret.before.sites
        /\ ret.reason = [reason |-> "stopped", info |-> SIGTRAP,
                         trap_reason |-> "single_step"]

C8_Witness ==
    /\ ret.op = "step_in" /\ ret.path = "inline"
    /\ ret.before.height = 2 /\ ret.after.height = 1
    /\ Len(ret.before.sites) = 1

\* C9: whenever the tracee resumed by run_until_address(v) executes the
\* instruction at v before any other stop event, run_until_address returns
\* stopped with the PC at v and trap type single_step, whatever sites the
\* collection held before, a site at v included.
C9_RunUntilStopsAtAddress ==
    (ret.op = "run_until_address" /\ ret.reached) =>
        /\ ret.reason.reason = "stopped"
        /\ ret.pc = ret.address
        /\ ret.reason.trap_reason = "single_step"

C11_StepOverPass ==
    /\ (frame # NoLoc /\ frame.last.branch # "none") =>
          LET l     == frame.last
              stack == inline_stack_at_pc(l.pc)
              text  == InsnText(l.pc)
          IN IF l.height > 0
             THEN /\ l.branch = "inline"
                  /\ l.target = to_virt_addr(
                         Dies[stack[Len(stack) - l.height + 1]].high_pc)
             ELSE IF Len(text) >= 4 /\ SubSeq(text, 1, 4) = CallPattern
             THEN l.branch = "call" /\ l.target = l.pc + 1
             ELSE l.branch = "step"
    /\ (pos = "step_over" /\ frame.looped) =>
          LET e == line_entry_at_pc(data_.rip) IN
          e # EndIt /\ (e = frame.orig \/ LineRows[e].end_sequence)

\* C12: step_out runs until the high PC of inline_stack[size - inline
\* height - 1] and reads no tracee memory when the inline stack at the PC has
\* more than one frame and the inline height is below size - 1; in every
\* other case, an empty inline stack included, it runs until the 8-byte
\* value it reads from tracee memory at rbp + 8.
C12_StepOutTarget ==
    ret.op = "step_out" =>
        LET stack == inline_stack_at_pc(ret.pc) IN
        IF ret.size > 1 /\ ret.height < ret.size - 1
        THEN /\ ret.plan.reads = <<>>
             /\ ret.plan.target =
                   to_virt_addr(Dies[stack[ret.size - ret.height]].high_pc)
             /\ pos = "run_until" /\ loc.address = ret.plan.target
        ELSE /\ ret.plan.reads = <<ret.rbp + 8>>
             /\ ret.plan.target = StackMemory(ret.rbp + 8)
             /\ pos = "run_until" /\ loc.address = ret.plan.target

C12_Witness ==
    /\ ret.op = "step_out" /\ ret.size = 0 /\ ret.height = 0
    /\ ret.plan.reads = <<16>> /\ loc.address = 2

\* C14: after target::launch or target::attach returns, the target's
\* main-ELF pointer is non-null and refers to the ELF object get_elf()
\* returns, and the elves collection holds that object as a non-null entry.
C14_MainElfSet ==
    ret.op = "target" =>
        LET t == ret.result IN
        /\ t.main_elf_ # NullPtr
        /\ t.main_elf_ = t.elf_
        /\ \E i \in 1 .. Len(t.elves_) :
              t.elves_[i] # NullPtr /\ t.elves_[i] = t.main_elf_

(***************************************************************************)
(* Claims about the debug-information queries.                             *)
(***************************************************************************)
\* C13: find_functions(name) returns the DWARF function-index matches when
\* there is at least one, and the ELF symbols of that name only when DWARF
\* yields none; dwarf_functions and elf_functions are never both non-empty.
C13_FindFunctionsFallback ==
    ret.op = "find_functions" =>
        LET in == ret.input
            dwarf == dwarf_find_functions(in.info, in.name)
            elf == {sym \in in.symbols : sym.name = in.name}
        IN /\ dwarf # {} => /\ ret.result.dwarf_functions = dwarf
                            /\ ret.result.elf_functions = {}
           /\ dwarf = {} => /\ ret.result.dwarf_functions = {}
                            /\ ret.result.elf_functions = elf
           /\ ~(/\ ret.result.dwarf_functions # {}
                 /\ ret.result.elf_functions # {})

C13_Witness ==
    /\ ret.op = "find_functions" /\ ret.input.name = "f"
    /\ ret.result.dwarf_functions # {}
    /\ [name |-> "f", addr |-> 0] \in ret.input.symbols

\* C15 as stated: a compile unit with an unsupported header (unit_length
\* 0xffffffff, version other than 4, address size other than 8) is dropped
\* and every other compile unit of the object is available from
\* compile_units().
C15_UnsupportedUnitDropped ==
    ret.op = "dwarf" =>
        /\ ret.result.outcome = "ok"
        /\ ret.result.units =
              SelectSeq(ret.input.section,
                        LAMBDA h : /\ h.unit_length # Dwarf64Escape
                                   /\ h.version = 4 /\ h.address_size = 8)

\* C15, amended: when a compile unit of an object's .debug_info has an
\* unsupported header, the construction of the dwarf object fails with the
\* error of the first such unit and no compile unit is available; all units
\* are available, in section order, when every header is supported.
C15_UnsupportedUnitIsFatal ==
    ret.op = "dwarf" =>
        LET section == ret.input.section
            Supported(h) == /\ h.unit_length # Dwarf64Escape
                            /\ h.version = 4 /\ h.address_size = 8
            bad == {k \in 1 .. Len(section) : ~Supported(section[k])}
        IN IF bad = {}
           THEN ret.result.outcome = "ok" /\ ret.result.units = section
           ELSE LET first == section[CHOOSE k \in bad : \A l \in bad : k <= l]
                IN /\ ret.result.outcome = "error"
                   /\ ret.result.units = <<>>
                   /\ ret.result.msg =
                         (IF first.unit_length = Dwarf64Escape
                          THEN "Only DWARF32 is supported"
                          ELSE IF first.version # 4
                          THEN "Only DWARF version 4 is supported"
                          ELSE "Invalid address size for DWARF")

C15_Witness ==
    /\ ret.op = "dwarf" /\ Len(ret.input.section) = 2
    /\ ret.input.section[1] =
          [unit_length |-> 7, version |-> 4, address_size |-> 8]
    /\ ret.input.section[2].version = 5
    /\ ret.result.outcome = "error"

\* C16: whenever function_containing_address(a) returns a DIE, the DIE has
\* tag DW_TAG_subprogram and its contains_address(a) is true; it returns no
\* DIE when no indexed subprogram contains a.
C16_FunctionContainsAddress ==
    ret.op = "function_containing_address" =>
        LET info == ret.input.info
            a == ret.input.address
            indexed == {d \in 1 .. Len(info) :
                           /\ info[d].tag = "subprogram"
                           /\ info[d].low_pc # NullAddr
                           /\ info[d].name # NoName}
        IN /\ ret.result # 0 =>
                 /\ info[ret.result].tag = "subprogram"
                 /\ a # NullAddr
                 /\ info[ret.result].low_pc <= a
                 /\ a < info[ret.result].high_pc
           /\ (\A d \in indexed :
                   ~(a # NullAddr /\ info[d].low_pc <= a /\ a < info[d].high_pc))
                 => ret.result = 0

C16_Witness ==
    /\ ret.op = "function_containing_address" /\ ret.result # 0
    /\ \E d \in 1 .. Len(ret.input.info) :
          /\ ret.input.info[d].tag = "inlined_subroutine"
          /\ contains_address(ret.input.info[d], ret.input.address)

\* C17: inline_stack_at_address(a) is empty when no function contains a;
\* otherwise its first element is the containing subprogram, every later
\* element is an inlined_subroutine that is a direct child of the element
\* before it and contains a, and the last element has no direct
\* inlined_subroutine child that contains a.
C17_InlineStackOrder ==
    ret.op = "inline_stack_at_address" =>
        LET info == ret.input.info
            a == ret.input.address
            stack == ret.result
            Inlined(d) == /\ info[d].tag = "inlined_subroutine"
                          /\ contains_address(info[d], a)
        IN IF function_containing_address(info, a) = {}
           THEN stack = <<>>
           ELSE /\ Len(stack) >= 1
                /\ stack[1] \in function_containing_address(info, a)
                /\ \A i \in 2 .. Len(stack) :
                      /\ stack[i] \in DirectChildren(info, stack[i - 1])
                      /\ Inlined(stack[i])
                /\ \A d \in DirectChildren(info, stack[Len(stack)]) :
                      ~Inlined(d)

C17_Witness ==
    /\ ret.op = "inline_stack_at_address" /\ Len(ret.result) = 3
    /\ ret.input.info = Dies

\* C18: get_entry_by_address(addr) returns the first row prev, in emission
\* order, with prev.address <= addr < next.address and prev no end-sequence
\* row, next being the row emitted right after prev; it returns the end
\* iterator when there is no such pair of rows.
C18_EntryByAddress ==
    ret.op = "get_entry_by_address" =>
        LET rows == ret.input.rows
            addr == ret.input.address
            pairs == {k \in 1 .. Len(rows) - 1 :
                         /\ rows[k].address <= addr
                         /\ addr < rows[k + 1].address
                         /\ ~rows[k].end_sequence}
        IN IF pairs = {} THEN ret.result = EndIt
           ELSE /\ ret.result \in pairs
                /\ \A k \in pairs : ret.result <= k

C18_Witness ==
    /\ ret.op = "get_entry_by_address" /\ ret.result = 3
    /\ ret.input.address = 1 /\ Len(ret.input.rows) = 4
    /\ ret.input.rows[1] = [address |-> 0, end_sequence |-> TRUE]
    /\ ret.input.rows[2].address = 2

\* C19: for every line-number program the iterator accepts, the addresses
\* of the rows emitted from begin() to end() are non-decreasing within each
\* sequence, that is between one end_sequence row and the next.
C19_RowsNonDecreasing ==
    ret.op = "line_table" =>
        \A k \in 1 .. Len(ret.result) - 1 :
            ~ret.result[k].end_sequence =>
                ret.result[k].address <= ret.result[k + 1].address

\* C20: for a DIE that has children, ++ on the children iterator lands on
\* the same next sibling whether it jumps through DW_AT_sibling or walks the
\* DIE's children to their terminator and parses at that terminator's next;
\* iterating children() of a parent visits exactly the parent's direct
\* children in order and ends at the parent's terminator.
C20_ChildrenIteration ==
    ret.op = "children" =>
        LET info == ret.input.info
            die == ret.input.die
            jumps == [info EXCEPT ![die].sibling = SiblingOf(info, die)]
            walks == [info EXCEPT ![die].sibling = 0]
            visited == ret.result.visited
        IN /\ children_increment(jumps, parse_die(jumps, die))
                = children_increment(walks, parse_die(walks, die))
           /\ ret.result.next = parse_die(info, SiblingOf(info, die))
           /\ {visited[i] : i \in 1 .. Len(visited)} = DirectChildren(info, die)
           /\ \A i \in 1 .. Len(visited) - 1 : visited[i] < visited[i + 1]
           /\ ~ret.result.end.abbrev
           /\ ret.result.end.next = SiblingOf(info, die)

C20_Witness ==
    /\ ret.op = "children" /\ ret.input.die = 2
    /\ Len(ret.input.info) = Len(Dies)
    /\ ret.input.info[2].sibling = 0 /\ ret.input.info[3].sibling = 0
    /\ ret.result.visited = <<3>>
    /\ ret.result.next.pos = 7

\* C21: skip_form advances the cursor past the encoded value of every
\* attribute form DWARF v4 defines, and fails with "Unrecognized DWARF form"
\* only for form codes that are no DWARF v4 form.
C21_SkipFormCoversV4 ==
    ret.op = "skip_form" =>
        LET data == ret.input.data
            Fixed(form) ==
                CASE form = "flag_present" -> 0
                  [] form \in {"data1", "ref1", "flag"} -> 1
                  [] form \in {"data2", "ref2"} -> 2
                  [] form \in {"data4", "ref4", "ref_addr", "sec_offset",
                               "strp"} -> 4
                  [] form \in {"data8", "addr", "ref8", "ref_sig8"} -> 8
                  [] OTHER -> -1
            LebEnd(at) == CHOOSE e \in at + 1 .. Len(data) :
                              /\ data[e] < 128
                              /\ \A k \in at + 1 .. e - 1 : data[k] >= 128
            End[form \in Forms \ {"indirect", "unknown"}, at \in 0 .. MaxBytes] ==
                IF Fixed(form) >= 0 THEN at + Fixed(form)
                ELSE IF form \in {"sdata", "udata", "ref_udata"} THEN LebEnd(at)
                ELSE IF form \in {"block", "exprloc"}
                THEN LebEnd(at) + uleb128(data, at).value
                ELSE IF form = "block1" THEN at + 1 + data[at + 1]
                ELSE IF form = "block2"
                THEN at + 2 + data[at + 1] + 256 * data[at + 2]
                ELSE IF form = "block4"
                THEN at + 4 + data[at + 1] + 256 * data[at + 2]
                     + 65536 * data[at + 3] + 16777216 * data[at + 4]
                ELSE \* string
                     CHOOSE e \in at + 1 .. Len(data) :
                         /\ data[e] = 0
                         /\ \A k \in at + 1 .. e - 1 : data[k] # 0
            form == ret.input.form
        IN IF form = "unknown"
           THEN ret.result.outcome = "error"
                /\ ret.result.msg = "Unrecognized DWARF form"
           ELSE IF form # "indirect"
           THEN ret.result.outcome = "ok" /\ ret.result.cur = End[form, 0]
           ELSE LET actual == FormOfCode(data[1]) IN
                data[1] < 128 /\ actual \notin {"indirect", "unknown"} =>
                    /\ ret.result.outcome = "ok"
                    /\ ret.result.cur = End[actual, 1]

\* C22: after every emitted row the registers have basic_block_start,
\* prologue_end and epilogue_begin false and discriminator 0; after the row
\* of DW_LNE_end_sequence every register is back at its initial value
\* (address 0, file_index 1, line 1, column 0, is_stmt the table's default,
\* end_sequence false).
C22_RegistersAfterRow ==
    ret.op = "execute_instruction" /\ ret.result.emitted =>
        LET after == ret.result.registers IN
        /\ ~after.basic_block_start /\ ~after.prologue_end
        /\ ~after.epilogue_begin /\ after.discriminator = 0
        /\ ret.result.current.end_sequence =>
               /\ after.address = 0 /\ after.file_index = 1
               /\ after.line = 1 /\ after.column = 0
               /\ after.is_stmt = ret.input.table.default_is_stmt_
               /\ ~after.end_sequence

C22_Witness ==
    /\ ret.op = "execute_instruction" /\ ret.result.emitted
    /\ ret.result.current.end_sequence
    /\ ret.input.registers.discriminator = 4
    /\ ret.input.registers.prologue_end
    /\ ret.input.registers.file_index = 2
    /\ ret.input.registers.is_stmt # ret.input.table.default_is_stmt_

\* C23: a special opcode op advances the address by
\* (op - opcode_base) / line_range and the line by
\* line_base + (op - opcode_base) % line_range, changes no other register
\* before the row is copied, and emits exactly one row.
C23_SpecialOpcode ==
    ret.op = "execute_instruction"
    /\ ret.input.ins.opcode >= ret.input.table.opcode_base_ =>
        LET table == ret.input.table
            before == ret.input.registers
            row == ret.result.current
            adjusted == ret.input.ins.opcode - table.opcode_base_
        IN /\ ret.result.emitted /\ ret.result.error = ""
           /\ row.address = (before.address + (adjusted \div table.line_range_))
                            % AddrModulus
           /\ row.line = (before.line + table.line_base_
                          + (adjusted % table.line_range_)) % LineModulus
           /\ row = [before EXCEPT !.address = row.address,
                                   !.line = row.line]

C23_Witness ==
    /\ ret.op = "execute_instruction" /\ ret.input.ins.opcode = 32
    /\ ret.input.table.opcode_base_ = 10
    /\ ret.result.current.address = (ret.input.registers.address + 5)
                                    % AddrModulus
    /\ ret.result.current.line = ret.input.registers.line + 1
    /\ ret.input.registers.discriminator = 4
    /\ ret.result.current.discriminator = 4

\* C24: iterating a range list emits (base + low, base + high) for every
\* pair before the first (0, 0) pair that is no base selector, in order; the
\* base is the CU root's DW_AT_low_pc (0 when absent) until a pair whose
\* first value is ~0 replaces it with its second value; no entry is emitted
\* for a selector or for the terminator, and the iterator then equals end().
C24_RangeListEntries ==
    ret.op = "range_list" =>
        LET data == ret.input.data
            initial == IF ret.input.root_low_pc = NullAddr THEN 0
                       ELSE ret.input.root_low_pc
            IsSelector(j) == data[j].low = base_address_flag
            stop == CHOOSE k \in 1 .. Len(data) :
                        /\ data[k] = [low |-> 0, high |-> 0]
                        /\ \A j \in 1 .. k - 1 :
                               data[j] # [low |-> 0, high |-> 0]
            BaseAt(j) ==
                LET before == {i \in 1 .. j - 1 : IsSelector(i)} IN
                IF before = {} THEN initial
                ELSE data[CHOOSE i \in before :
                              \A other \in before : other <= i].high
            Emitted[j \in 0 .. stop - 1] ==
                IF j = 0 THEN <<>>
                ELSE IF IsSelector(j) THEN Emitted[j - 1]
                ELSE Append(Emitted[j - 1],
                         [low |-> (BaseAt(j) + data[j].low) % AddrModulus,
                          high |-> (BaseAt(j) + data[j].high) % AddrModulus])
        IN /\ ret.result.entries = Emitted[stop - 1]
           /\ ret.result.last = 0

C24_Witness ==
    /\ ret.op = "range_list" /\ ret.input.root_low_pc = 2
    /\ Len(ret.input.data) = 4
    /\ ret.input.data[1] = [low |-> 0, high |-> 1]
    /\ ret.input.data[2] = [low |-> base_address_flag, high |-> 1]
    /\ ret.input.data[3] = [low |-> 1, high |-> 2]
    /\ ret.result.entries = << [low |-> 2, high |-> 3],
                               [low |-> 2, high |-> 3] >>

\* C25: the function index is built by the first lookup and never rebuilt:
\* for every object, one without an indexable function included, a later
\* lookup traverses no DIE and leaves the index as it was.
C25_IndexBuiltOnce ==
    ret.op = "index" =>
        /\ ret.result.later.traversed = {}
        /\ ret.result.later.function_index_ = ret.result.first.function_index_

\* C26: is_char_type is true exactly when the DIE left after stripping
\* const, volatile and typedef is a base_type whose encoding is signed_char
\* or unsigned_char; it is false for every DIE that is no base_type.
C26_IsCharType ==
    ret.op = "is_char_type" /\ ret.result.outcome = "ok" =>
        LET chain == ret.input.chain
            stripped == CHOOSE d \in {chain[k] : k \in 1 .. Len(chain)} :
                            d.tag \notin CvTypedefTags
        IN ret.result.value
               = (/\ stripped.tag = "DW_TAG_base_type"
                  /\ stripped.encoding \in {"DW_ATE_signed_char",
                                            "DW_ATE_unsigned_char"})

\* C27: parse_abbrev_table reads declarations until the code 0 and consumes
\* no byte after that terminator; each attribute list ends at its (0, 0)
\* pair, which is not stored; the table holds one entry per non-zero code.
C27_AbbrevTableParsed ==
    ret.op = "parse_abbrev_table" =>
        LET decls == ret.input.decls
            table == ret.result.table
            Declared == {decls[k] : k \in 1 .. Len(decls)}
        IN /\ ret.result.cur = Len(TableBytes(decls))
           /\ {e.code : e \in table} = {d.code : d \in Declared}
           /\ \A e \in table :
                  /\ \A other \in table : other.code = e.code => other = e
                  /\ \E d \in Declared :
                         /\ e = [code |-> d.code, tag |-> d.tag,
                                 has_children |-> d.has_children = 1,
                                 attr_specs |-> d.attr_specs]

\* C28: after any sequence of pushes, contains_id(id) holds exactly when a
\* pushed stoppoint has the id; get_by_id(id) then returns the earliest
\* pushed stoppoint with the id, and otherwise fails with "Invalid
\* stoppoint id"; the collection keeps its size and order.
C28_GetById ==
    ret.op = "get_by_id" =>
        LET pushes == ret.input.pushes
            id == ret.input.id
            got == ret.result.get
            with_id == {k \in 1 .. Len(pushes) : pushes[k].id = id}
        IN /\ ret.result.contains = (with_id # {})
           /\ got.stoppoints_ = pushes
           /\ IF with_id # {}
              THEN /\ got.outcome = "ok" /\ got.it \in with_id
                   /\ \A k \in with_id : got.it <= k
                   /\ got.stoppoints_[got.it] = pushes[got.it]
              ELSE got.outcome = "error" /\ got.msg = "Invalid stoppoint id"

C28_Witness ==
    /\ ret.op = "get_by_id" /\ Len(ret.input.pushes) = 3
    /\ ret.input.pushes[2].id = ret.input.id
    /\ ret.input.pushes[3].id = ret.input.id
    /\ ret.input.pushes[1].id # ret.input.id
    /\ ret.result.get.it = 2

C30_UnitsTileSection ==
    ret.op = "parse_compile_units" =>
        LET section == ret.input.section
            data == ret.result.data
            units == ret.result.units
        IN /\ ret.result.outcome \in {"ok", "error"}
           /\ \A k \in 1 .. Len(data) :
                  /\ data[k].size = (units[k].unit_length + 4)
                                    % (Dwarf64Escape + 1)
                  /\ data[k].size > 0
                  /\ data[k].start = IF k = 1 THEN 0
                                     ELSE data[k - 1].start + data[k - 1].size
           /\ ret.result.outcome = "ok" =>
                  /\ data # <<>>
                  /\ data[Len(data)].start + data[Len(data)].size
                         = HeaderSize * Len(section)

====
